---- MODULE Spec2Model ----
(***************************************************************************)
(* Model of the TSaCt2 Boolean-network engine (booleannet.cpp, gate.cpp,   *)
(* aagloader.cpp).  Gates live in an arena N.G indexed by handle; a C++    *)
(* Gate* is a handle, NULL is 0.  A deleted gate keeps its slot with       *)
(* alive = FALSE, so that a dangling pointer is a handle of a dead slot.   *)
(* Every method is an operator from network to network; a C++ loop is a    *)
(* recursive operator over the loop index.                                 *)
(***************************************************************************)
EXTENDS Integers, Sequences, FiniteSets, TLC

VARIABLES net, orig, hist, plan, sim, arg

vars == <<net, orig, hist, plan, sim, arg>>

\* ---------------------------------------------------------------- bounds
MaxIn == 2
MaxAnd == 2
MaxOut == 1
MaxOps == 3
\* of them, commands that rebuild the network
MaxChanges == 1
\* AND lines of the files the simulator is run on
MaxSimAnd == 1
\* simVect commands of a run
MaxSims == 1
\* recursion budget of the fixpoint loops of moveInverters
MaxIter == 12
\* gates one simInVect run may take off its queue
MaxSimSteps == 400
\* depth at which a setDepth recursion is taken to be running round a cycle
MaxDepth == 16
\* largest count given to the insert command
MaxPlaces == 2
\* inputs and outputs of the networks of the buffer-insertion runs
MaxBuffIn == 1
MaxBuffOut == 2
\* SCOAP values below this bound have a product below 2^32
SmallScoap == 1024
\* inputs, AND lines and outputs of the files of the loader runs
MaxLoadIn == 1
MaxLoadAnd == 1
MaxLoadOut == 3
\* largest latch count of a header, modulo 2^32
MaxLatch == 1
\* largest multiple of 2^32 in a header field
MaxWrap == 1
\* inputs of the networks of the coloring runs, colorings of one run, and
\* gates one coloring may take off its stack
MaxColorIn == 1
MaxColorings == 2
MaxColorSteps == 200
\* inputs of the networks of the depth runs
MaxDepthIn == 1
\* inputs of the networks of the convNAND runs, and consumers of their
\* first AND gate
MaxNandIn == 1
MaxNandFollowers == 4
\* networks of the inverter-moving runs: inputs and AND gates
MaxMoveIn == 1
MaxMoveAnd == 3
\* command lines of several rebuilding commands: inputs, AND gates,
\* rebuilding commands in one line
MaxSeqIn == 1
MaxSeqAnd == 2
MaxSeqChanges == 3

\* buffers asked of "buffByScoap" further down a command line
MaxSeqPlaces == 1
\* files of the command lines that mix all five transformations
MaxTransIn == 1
MaxTransAnd == 2
\* direct calls of remFollow / remInput: length of the lists, other gates
MaxRemLen == 3
MaxRemOthers == 2
\* networks that are placed: inputs, AND gates (from none on)
MaxPlaceIn == 1
MaxPlaceAnd == 2

\* ------------------------------------------------------------- constants
NULL == 0
\* __INT_MAX__ = 2^31 - 1, the SCOAP "infinity"
INT_MAX == 2147483647
\* one 16-bit limb of an unsigned 32-bit value
Limb == 65536

\* ============================================================ sequences
\* std::vector::insert(begin(), x)
PushFront(s, x) == <<x>> \o s

\* std::vector::erase(begin() + i), i counted from 1
EraseAt(s, i) == SubSeq(s, 1, i - 1) \o SubSeq(s, i + 1, Len(s))

\* index of the first occurrence of x in s, 0 when absent
RECURSIVE FirstIdxFrom(_, _, _)
FirstIdxFrom(s, x, i) ==
    IF i > Len(s) THEN 0
    ELSE IF s[i] = x THEN i
    ELSE FirstIdxFrom(s, x, i + 1)

FirstIdx(s, x) == FirstIdxFrom(s, x, 1)

\* number of occurrences of x in s
Count(s, x) == Cardinality({i \in 1..Len(s) : s[i] = x})

Range(s) == {s[i] : i \in 1..Len(s)}

\* ================================================================= Gate
\* Gate::Gate
Gate ==
    [fn |-> "BUFFER", pl |-> "INNER", ins |-> <<>>, inv |-> <<>>,
     fol |-> <<>>, oinv |-> FALSE, depth |-> 0, comp |-> NULL,
     val |-> FALSE, cc0 |-> INT_MAX, cc1 |-> INT_MAX, co |-> INT_MAX,
     color |-> {}, placed |-> FALSE, placeX |-> 0, placeY |-> 0,
     alive |-> TRUE]

\* `new Gate(..)`: the handle of the gate allocated next
NextId(N) == Len(N.G) + 1

NewGate(N) == [N EXCEPT !.G = Append(@, Gate)]

\* a method call through a NULL or dangling pointer
Fault(N, g) ==
    IF g = NULL THEN [N EXCEPT !.st = "null"]
    ELSE [N EXCEPT !.st = "freed"]

Valid(N, g) == g # NULL /\ N.G[g].alive

Ok(N) == N.st = "ok"

setFunction(N, g, f) == [N EXCEPT !.G[g].fn = f]

setPlacement(N, g, p) == [N EXCEPT !.G[g].pl = p]

setComplement(N, g, h) == [N EXCEPT !.G[g].comp = h]

setOutputInverting(N, g) == [N EXCEPT !.G[g].oinv = TRUE]

setOutputNonInverting(N, g) == [N EXCEPT !.G[g].oinv = FALSE]

\* out-of-range indices are ignored
setInputInverting(N, g, i) ==
    IF i <= Len(N.G[g].inv) THEN [N EXCEPT !.G[g].inv[i] = TRUE] ELSE N

setInputNonInverting(N, g, i) ==
    IF i <= Len(N.G[g].inv) THEN [N EXCEPT !.G[g].inv[i] = FALSE] ELSE N

\* out-of-range index gives false
isInputInverting(N, g, i) ==
    IF i <= Len(N.G[g].inv) THEN N.G[g].inv[i] ELSE FALSE

\* out-of-range index gives NULL
getDriver(N, g, i) ==
    IF i <= Len(N.G[g].ins) THEN N.G[g].ins[i] ELSE NULL

getFollow(N, g, i) ==
    IF i <= Len(N.G[g].fol) THEN N.G[g].fol[i] ELSE NULL

getFanIn(N, g) == Len(N.G[g].ins)

getFanOut(N, g) == Len(N.G[g].fol)

resetDepth(N, g) == [N EXCEPT !.G[g].depth = 0]

\* a setDepth that stores the depth and leaves the followers as they are
setDepthOnly(N, g, d) ==
    IF ~Ok(N) THEN N
    ELSE IF ~Valid(N, g) THEN Fault(N, g)
    ELSE IF N.G[g].depth < d THEN [N EXCEPT !.G[g].depth = d]
    ELSE N

\* Gate::setDepth: monotone, pushed through the followers 1..i in list
\* order, the depth read again for each of them.  On a cycle the
\* recursion never returns (the call stack overflows): st = "stack"
RECURSIVE setDepth(_, _, _)
RECURSIVE setDepthFollowers(_, _, _)
setDepth(N, g, d) ==
    IF ~Ok(N) THEN N
    ELSE IF ~Valid(N, g) THEN Fault(N, g)
    ELSE IF d > MaxDepth THEN [N EXCEPT !.st = "stack"]
    ELSE IF N.G[g].depth < d
         THEN setDepthFollowers([N EXCEPT !.G[g].depth = d], g,
                                Len(N.G[g].fol))
         ELSE N

setDepthFollowers(N, g, i) ==
    IF i = 0 THEN N
    ELSE LET M == setDepthFollowers(N, g, i - 1) IN
         IF ~Ok(M) \/ i > Len(M.G[g].fol) THEN M
         ELSE setDepth(M, M.G[g].fol[i], M.G[g].depth + 1)

\* Gate::newFollow
newFollow(N, g, follow) ==
    IF ~Ok(N) THEN N
    ELSE IF ~Valid(N, g) THEN Fault(N, g)
    ELSE IF follow = NULL THEN N
    ELSE [N EXCEPT !.G[g].fol = PushFront(@, follow)]

\* the loop of remFollow / remInput: erase at i, then go on with i + 1,
\* so the entry that moved into slot i is not looked at
RECURSIVE RemScan(_, _, _)
RemScan(s, x, i) ==
    IF i > Len(s) THEN <<>>
    ELSE IF s[i] = x
         THEN (IF i + 1 <= Len(s) THEN <<s[i + 1]>> ELSE <<>>)
              \o RemScan(s, x, i + 2)
         ELSE <<s[i]>> \o RemScan(s, x, i + 1)

\* Gate::remFollow
remFollow(N, g, follow) ==
    IF ~Ok(N) THEN N
    ELSE IF ~Valid(N, g) THEN Fault(N, g)
    ELSE IF follow = NULL THEN N
    ELSE [N EXCEPT !.G[g].fol = RemScan(@, follow, 1)]

\* the inverting bits remInput leaves: erased at the same indices as the
\* input list
RECURSIVE RemScanInv(_, _, _, _)
RemScanInv(s, v, x, i) ==
    IF i > Len(s) THEN <<>>
    ELSE IF s[i] = x
         THEN (IF i + 1 <= Len(s) THEN <<v[i + 1]>> ELSE <<>>)
              \o RemScanInv(s, v, x, i + 2)
         ELSE <<v[i]>> \o RemScanInv(s, v, x, i + 1)

\* Gate::remInput
remInput(N, g, pred) ==
    IF ~Ok(N) THEN N
    ELSE IF ~Valid(N, g) THEN Fault(N, g)
    ELSE IF pred = NULL THEN N
    ELSE [N EXCEPT !.G[g].ins = RemScan(N.G[g].ins, pred, 1),
                   !.G[g].inv = RemScanInv(N.G[g].ins, N.G[g].inv, pred, 1)]

\* Gate::newInput
newInput(N, g, pred, isInverting) ==
    IF ~Ok(N) THEN N
    ELSE IF ~Valid(N, g) THEN Fault(N, g)
    ELSE IF pred = NULL THEN N
    ELSE IF ~N.G[pred].alive THEN Fault(N, pred)
    ELSE setDepth([N EXCEPT !.G[g].ins = PushFront(@, pred),
                            !.G[g].inv = PushFront(@, isInverting)],
                  g, N.G[pred].depth + 1)

\* Gate::swapDriver: the first slot holding oldDriver
swapDriver(N, g, oldDriver, newDriver) ==
    IF ~Ok(N) THEN N
    ELSE IF ~Valid(N, g) THEN Fault(N, g)
    ELSE LET i == FirstIdx(N.G[g].ins, oldDriver) IN
         IF i = 0 THEN N
         ELSE LET M == [N EXCEPT !.G[g].ins[i] = newDriver] IN
              IF newDriver = NULL THEN M
              ELSE IF ~N.G[newDriver].alive THEN Fault(M, newDriver)
              ELSE setDepth(M, g, N.G[newDriver].depth + 1)

\* =========================================================== BooleanNet
\* BooleanNet::BooleanNet: inputs, then gates, then outputs are allocated
RECURSIVE ctorInputs(_, _, _)
ctorInputs(N, i, n) ==
    IF i > n THEN N
    ELSE LET g == NextId(N) IN
         ctorInputs([setPlacement(NewGate(N), g, "INPUT")
                        EXCEPT !.inputs = Append(@, g)], i + 1, n)

RECURSIVE ctorGates(_, _, _)
ctorGates(N, i, n) ==
    IF i > n THEN N
    ELSE LET g == NextId(N) IN
         ctorGates([NewGate(N) EXCEPT !.gates = Append(@, g)], i + 1, n)

RECURSIVE ctorOutputs(_, _, _)
ctorOutputs(N, i, n) ==
    IF i > n THEN N
    ELSE LET g == NextId(N) IN
         ctorOutputs([setPlacement(NewGate(N), g, "OUTPUT")
                         EXCEPT !.outputs = Append(@, g)], i + 1, n)

BooleanNet(in, out, gates) ==
    ctorOutputs(
      ctorGates(
        ctorInputs([G |-> <<>>, gates |-> <<>>, inputs |-> <<>>,
                    outputs |-> <<>>, buffers |-> <<>>, netDepth |-> 0,
                    netSumScoap |-> <<0, 0>>, tmp |-> <<>>, ret |-> FALSE,
                    netPlaced |-> FALSE, st |-> "ok"], 1, in),
        1, gates),
      1, out)

\* getInput / getGate / getOutput with a 0-based C++ index; out of range
\* (also a negative int converted to unsigned) gives NULL
getInput(N, k) ==
    IF k >= 0 /\ k < Len(N.inputs) THEN N.inputs[k + 1] ELSE NULL

getGate(N, k) ==
    IF k >= 0 /\ k < Len(N.gates) THEN N.gates[k + 1] ELSE NULL

getOutput(N, k) ==
    IF k >= 0 /\ k < Len(N.outputs) THEN N.outputs[k + 1] ELSE NULL

\* remOutput that erases nothing
remOutputKept(N, k) == N

\* BooleanNet::remOutput, 0-based
remOutput(N, k) ==
    IF k >= 0 /\ k < Len(N.outputs)
    THEN [N EXCEPT !.outputs = EraseAt(@, k + 1)] ELSE N

\* ============================================================ AagLoader
\* the pair of calls that wires driver d into gate g
Wire(N, g, d, isInverting) ==
    LET follow(M) == IF ~Ok(M) THEN M
                     ELSE IF d = NULL THEN Fault(M, d)
                     ELSE newFollow(M, d, g)
    IN follow(newInput(N, g, d, isInverting))

\* the gate a literal of an output line refers to
OutDriver(N, I, lit) ==
    IF lit \div 2 <= I THEN getInput(N, lit \div 2 - 1)
    ELSE getGate(N, lit \div 2 - I - 1)

\* the output loop: i is the 0-based slot, k the 1-based line read next
RECURSIVE loadOutputs(_, _, _, _)
loadOutputs(N, p, i, k) ==
    IF ~Ok(N) \/ k > Len(p.outs) THEN N
    ELSE LET lit == p.outs[k] IN
         IF lit = 0 \/ lit = 1
         THEN loadOutputs(remOutput(N, i), p, i, k + 1)
         ELSE loadOutputs(Wire(N, getOutput(N, i), OutDriver(N, p.I, lit),
                               lit % 2 = 1),
                          p, i + 1, k + 1)

\* the driver a right-hand literal of an AND line refers to
AndDriver(N, I, lit) ==
    IF lit <= 2 * I + 1 THEN getInput(N, lit \div 2 - 1)
    ELSE getGate(N, lit \div 2 - I - 1)

\* the AND loop; line k defines variable I + k
RECURSIVE loadAnds(_, _, _)
loadAnds(N, p, k) ==
    IF ~Ok(N) \/ k > Len(p.ands) THEN N
    ELSE LET g == getGate(N, k - 1)
             wire(M, lit) ==
                 Wire(M, g, AndDriver(M, p.I, lit), lit % 2 = 1)
         IN loadAnds(wire(wire(setFunction(N, g, "AND"), p.ands[k][1]),
                          p.ands[k][2]),
                     p, k + 1)

\* AagLoader::AagLoader past the header checks
AagLoader(p) ==
    loadAnds(loadOutputs(BooleanNet(p.I, Len(p.outs), Len(p.ands)), p, 0, 1),
             p, 1)

\* a loop that stores a depth only while netDepth is still 0
RECURSIVE netDepthLoopOnce(_, _)
netDepthLoopOnce(N, i) ==
    IF i > Len(N.outputs) THEN N
    ELSE LET o == N.outputs[i] IN
         netDepthLoopOnce(IF N.G[o].depth > N.netDepth /\ N.netDepth = 0
                          THEN [N EXCEPT !.netDepth = N.G[o].depth] ELSE N,
                          i + 1)

\* BooleanNet::computeNetDepth
RECURSIVE netDepthLoop(_, _)
netDepthLoop(N, i) ==
    IF i > Len(N.outputs) THEN N
    ELSE LET o == N.outputs[i] IN
         netDepthLoop(IF N.G[o].depth > N.netDepth
                      THEN [N EXCEPT !.netDepth = N.G[o].depth] ELSE N,
                      i + 1)

computeNetDepth(N) == netDepthLoop(N, 1)

\* ------------------------------------------------ construction plans
\* right-hand literals of AND line k: a primary input or another AND gate,
\* never a constant (a constant operand makes the loader call newFollow on
\* a null pointer)
AndLits(I, A, k) ==
    {l \in 2..(2 * (I + A) + 1) : l \div 2 # I + k}

OutLits(I, A) == 0..(2 * (I + A) + 1)

\* gate variables an AND line refers to
Refs(I, pair) == {v \in {pair[1] \div 2, pair[2] \div 2} : v > I}

\* no cycle among the AND lines: some order defines every gate after its
\* operands (checked by peeling gates whose operands are all peeled)
RECURSIVE Peel(_, _, _)
Peel(I, ands, done) ==
    LET more == {k \in 1..Len(ands) :
                    /\ I + k \notin done
                    /\ Refs(I, ands[k]) \subseteq done}
    IN IF more = {} THEN done
       ELSE Peel(I, ands, done \cup {I + k : k \in more})

Acyclic(I, ands) ==
    Peel(I, ands, {}) = {I + k : k \in 1..Len(ands)}

AndLines(I, A) ==
    {a \in [1..A -> (2..(2 * (I + A) + 1)) \X (2..(2 * (I + A) + 1))] :
        /\ \A k \in 1..A : a[k][1] \in AndLits(I, A, k)
                           /\ a[k][2] \in AndLits(I, A, k)
        /\ Acyclic(I, a)}

Plans ==
    UNION {UNION {{[I |-> I, outs |-> o, ands |-> a] :
                      o \in [1..MaxOut -> OutLits(I, A)],
                      a \in AndLines(I, A)} :
                  A \in 1..MaxAnd} :
           I \in 1..MaxIn}

\* ========================================================= convDualRail
\* BooleanNet::convdual_getComplementaryGateFn
convdual_getComplementaryGateFn(fn) ==
    CASE fn = "AND" -> "OR"
      [] fn = "OR" -> "AND"
      [] OTHER -> "BUFFER"

\* N.tmp is the local vector of the running pass (newGates, newInputs,
\* newOutputs, newBalancers, newBuffers)

\* the gate duplication copying the polarity of each slot instead of
\* flipping it
RECURSIVE dualCopyInputsSamePolarity(_, _, _, _)
dualCopyInputsSamePolarity(N, g, twin, j) ==
    IF ~Ok(N) \/ j > getFanIn(N, g) THEN N
    ELSE LET d == getDriver(N, g, j)
             N1 == newInput(N, twin, d, isInputInverting(N, g, j))
         IN dualCopyInputsSamePolarity(newFollow(N1, d, twin), g, twin, j + 1)

\* inner loop of the gate duplication: twin takes the drivers of g with
\* the polarity flipped
RECURSIVE dualCopyInputs(_, _, _, _)
dualCopyInputs(N, g, twin, j) ==
    IF ~Ok(N) \/ j > getFanIn(N, g) THEN N
    ELSE LET d == getDriver(N, g, j)
             N1 == newInput(N, twin, d, ~isInputInverting(N, g, j))
         IN dualCopyInputs(newFollow(N1, d, twin), g, twin, j + 1)

\* "duplicate gates"
RECURSIVE dualGates(_, _)
dualGates(N, i) ==
    IF ~Ok(N) \/ i > Len(N.gates) THEN N
    ELSE LET g == N.gates[i]
             twin == NextId(N)
             N1 == setFunction(NewGate(N), twin,
                               convdual_getComplementaryGateFn(N.G[g].fn))
             N2 == setPlacement(N1, twin, N.G[g].pl)
             N3 == setComplement(setComplement(N2, twin, g), g, twin)
             N4 == IF N.G[g].oinv THEN setOutputInverting(N3, twin) ELSE N3
             N5 == dualCopyInputs(N4, g, twin, 1)
         IN dualGates([N5 EXCEPT !.tmp = Append(@, twin)], i + 1)

\* "duplicate inputs"
RECURSIVE dualInputs(_, _)
dualInputs(N, i) ==
    IF ~Ok(N) \/ i > Len(N.inputs) THEN N
    ELSE LET g == N.inputs[i]
             in == NextId(N)
             N1 == setPlacement(setFunction(NewGate(N), in, "BUFFER"),
                                in, "INPUT")
             N2 == newFollow(newInput(N1, in, g, FALSE), g, in)
             N3 == resetDepth(setOutputInverting(N2, in), in)
             N4 == setComplement(setComplement(N3, in, g), g, in)
         IN dualInputs([N4 EXCEPT !.tmp = Append(@, in)], i + 1)

\* a method call on the complement of gate g (NULL when g has none)
CompOf(N, g) == IF g = NULL THEN NULL ELSE N.G[g].comp

\* the exchange of the drivers of an output o and its twin when o taps its
\* driver through an inverting edge
dualSwapOutput(N, o) ==
    LET s1(M) == setInputNonInverting(M, o, 1)
        s2(M) == swapDriver(M, o, getDriver(M, o, 1),
                            getDriver(M, CompOf(M, o), 1))
        s3(M) == swapDriver(M, CompOf(M, o), getDriver(M, CompOf(M, o), 1),
                            CompOf(M, getDriver(M, o, 1)))
        s4(M) == remFollow(M, getDriver(M, o, 1), CompOf(M, o))
        s5(M) == newFollow(M, getDriver(M, o, 1), o)
        s6(M) == remFollow(M, getDriver(M, CompOf(M, o), 1), o)
        s7(M) == newFollow(M, getDriver(M, CompOf(M, o), 1), CompOf(M, o))
    IN s7(s6(s5(s4(s3(s2(s1(N)))))))

\* "duplicate outputs"
RECURSIVE dualOutputs(_, _)
dualOutputs(N, i) ==
    IF ~Ok(N) \/ i > Len(N.outputs) THEN N
    ELSE LET o == N.outputs[i]
             out == NextId(N)
             d == getDriver(N, o, 1)
             s1(M) == setPlacement(setFunction(M, out, N.G[o].fn),
                                   out, N.G[o].pl)
             s2(M) == setComplement(setComplement(M, out, o), o, out)
             s3(M) == newInput(M, out, CompOf(M, d), FALSE)
             s4(M) == newFollow(M, CompOf(M, d), out)
             s5(M) == IF Ok(M) /\ isInputInverting(M, o, 1)
                      THEN dualSwapOutput(M, o) ELSE M
             s6(M) == [M EXCEPT !.tmp = Append(@, out)]
         IN IF d = NULL THEN Fault(N, d)
            ELSE dualOutputs(s6(s5(s4(s3(s2(s1(NewGate(N))))))), i + 1)

\* push_back of every element of the local vector
FlushTmp(N, field) ==
    IF ~Ok(N) THEN N
    ELSE CASE field = "gates" ->
                [N EXCEPT !.gates = @ \o N.tmp, !.tmp = <<>>]
           [] field = "inputs" ->
                [N EXCEPT !.inputs = @ \o N.tmp, !.tmp = <<>>]
           [] field = "outputs" ->
                [N EXCEPT !.outputs = @ \o N.tmp, !.tmp = <<>>]
           [] field = "gates+buffers" ->
                [N EXCEPT !.gates = @ \o N.tmp, !.buffers = @ \o N.tmp,
                          !.tmp = <<>>]

\* toggle the inverting bit of every slot of f that g drives
RECURSIVE toggleSlotsFrom(_, _, _, _)
toggleSlotsFrom(N, f, g, k) ==
    IF k > getFanIn(N, f) THEN N
    ELSE toggleSlotsFrom(
            IF getDriver(N, f, k) = g
            THEN (IF isInputInverting(N, f, k)
                  THEN setInputNonInverting(N, f, k)
                  ELSE setInputInverting(N, f, k))
            ELSE N, f, g, k + 1)

RECURSIVE toggleFollowers(_, _, _)
toggleFollowers(N, g, j) ==
    IF j > getFanOut(N, g) THEN N
    ELSE toggleFollowers(toggleSlotsFrom(N, getFollow(N, g, j), g, 1),
                         g, j + 1)

\* "remove inverters": an inverting output is moved onto the edges
RECURSIVE dualMoveInverters(_, _)
dualMoveInverters(N, i) ==
    IF ~Ok(N) \/ i > Len(N.gates) THEN N
    ELSE LET g == N.gates[i]
             N1 == IF N.G[g].oinv THEN toggleFollowers(N, g, 1) ELSE N
         IN dualMoveInverters(setOutputNonInverting(N1, g), i + 1)

\* "change Inputs" without the setInputNonInverting call
RECURSIVE dualChangeInputsKeepBit(_, _, _)
dualChangeInputsKeepBit(N, g, j) ==
    IF ~Ok(N) \/ j > getFanIn(N, g) THEN N
    ELSE IF isInputInverting(N, g, j)
         THEN LET s2(M) == remFollow(M, getDriver(M, g, j), g)
                  s3(M) == swapDriver(M, g, getDriver(M, g, j),
                                      CompOf(M, getDriver(M, g, j)))
                  s4(M) == newFollow(M, getDriver(M, g, j), g)
              IN dualChangeInputsKeepBit(s4(s3(s2(N))), g, j + 1)
         ELSE dualChangeInputsKeepBit(N, g, j + 1)

\* "change Inputs" of one gate: an inverting slot is redirected to the
\* complement of its driver
RECURSIVE dualChangeInputs(_, _, _)
dualChangeInputs(N, g, j) ==
    IF ~Ok(N) \/ j > getFanIn(N, g) THEN N
    ELSE IF isInputInverting(N, g, j)
         THEN LET s1(M) == setInputNonInverting(M, g, j)
                  s2(M) == remFollow(M, getDriver(M, g, j), g)
                  s3(M) == swapDriver(M, g, getDriver(M, g, j),
                                      CompOf(M, getDriver(M, g, j)))
                  s4(M) == newFollow(M, getDriver(M, g, j), g)
              IN dualChangeInputs(s4(s3(s2(s1(N)))), g, j + 1)
         ELSE dualChangeInputs(N, g, j + 1)

RECURSIVE dualChangeAll(_, _, _)
dualChangeAll(N, list, i) ==
    IF ~Ok(N) \/ i > Len(list) THEN N
    ELSE dualChangeAll(dualChangeInputs(N, list[i], 1), list, i + 1)

\* BooleanNet::convDualRail
convDualRail(N) ==
    LET s1(M) == FlushTmp(dualGates(M, 1), "gates")
        s2(M) == FlushTmp(dualInputs(M, 1), "inputs")
        s3(M) == FlushTmp(dualOutputs(M, 1), "outputs")
        s4(M) == dualMoveInverters(M, 1)
        s5(M) == dualChangeAll(M, M.gates, 1)
        s6(M) == dualChangeAll(M, M.outputs, 1)
    IN s6(s5(s4(s3(s2(s1(N))))))

\* ======================================================== moveInverters
\* N.ret is the bool a pass returns

\* std::vector::at: an index past the end throws std::out_of_range, which
\* nothing catches
InRange(N, i) == i <= Len(N.gates)

Throw(N) == [N EXCEPT !.st = "range"]

\* `delete gate`
Delete(N, g) == [N EXCEPT !.G[g].alive = FALSE]

\* BooleanNet::changeToEqGate
RECURSIVE toggleInputs(_, _, _)
toggleInputs(N, g, j) ==
    IF j > getFanIn(N, g) THEN N
    ELSE toggleInputs(IF isInputInverting(N, g, j)
                      THEN setInputNonInverting(N, g, j)
                      ELSE setInputInverting(N, g, j), g, j + 1)

\* the switch leaving the function as it is
SwapFnKept(fn) == fn

SwapFn(fn) ==
    CASE fn = "AND" -> "OR"
      [] fn = "OR" -> "AND"
      [] OTHER -> fn

changeToEqGate(N, g) ==
    IF ~Ok(N) THEN N
    ELSE IF ~Valid(N, g) THEN Fault(N, g)
    ELSE LET N1 == setFunction(N, g, SwapFn(N.G[g].fn))
             N2 == IF N1.G[g].oinv THEN setOutputNonInverting(N1, g)
                   ELSE setOutputInverting(N1, g)
         IN toggleInputs(N2, g, 1)

\* BooleanNet::mergeEqGates
RECURSIVE mergeDetach(_, _, _)
mergeDetach(N, gate0, i) ==
    IF ~Ok(N) \/ i > getFanIn(N, gate0) THEN N
    ELSE mergeDetach(remFollow(N, getDriver(N, gate0, i), gate0),
                     gate0, i + 1)

\* the follower loop of mergeEqGates without gate1->newFollow
RECURSIVE mergeFollowersUnlisted(_, _, _, _)
mergeFollowersUnlisted(N, gate0, gate1, i) ==
    IF ~Ok(N) \/ i > getFanOut(N, gate0) THEN N
    ELSE mergeFollowersUnlisted(
             swapDriver(N, getFollow(N, gate0, i), gate0, gate1),
             gate0, gate1, i + 1)

RECURSIVE mergeFollowers(_, _, _, _)
mergeFollowers(N, gate0, gate1, i) ==
    IF ~Ok(N) \/ i > getFanOut(N, gate0) THEN N
    ELSE LET f == getFollow(N, gate0, i)
             N1 == newFollow(N, gate1, f)
         IN mergeFollowers(swapDriver(N1, f, gate0, gate1),
                           gate0, gate1, i + 1)

mergeEqGates(N, gate0, gate1) ==
    LET erase(M, k) == IF k = 0 THEN M
                       ELSE [M EXCEPT !.gates = EraseAt(@, k)]
        free(M) == IF Ok(M) THEN Delete(M, gate0) ELSE M
        s3(M) == free(erase(M, FirstIdx(M.gates, gate0)))
    IN IF ~Ok(N) THEN N
       ELSE IF ~Valid(N, gate0) THEN Fault(N, gate0)
       ELSE s3(mergeFollowers(mergeDetach(N, gate0, 1), gate0, gate1, 1))

\* how many followers of g invert their (first) edge from g, and how many
\* of those are primary outputs
RECURSIVE countInverted(_, _, _)
countInverted(N, g, j) ==
    IF j > getFanOut(N, g) THEN <<0, 0>>
    ELSE LET f == getFollow(N, g, j)
             k == FirstIdx(N.G[f].ins, g)
             hit == k # 0 /\ N.G[f].inv[k]
             rest == countInverted(N, g, j + 1)
         IN <<rest[1] + (IF hit THEN 1 ELSE 0),
              rest[2] + (IF hit /\ N.G[f].pl = "OUTPUT" THEN 1 ELSE 0)>>

\* clear the inverting bit of every slot of f that g drives
RECURSIVE clearSlotsFrom(_, _, _, _)
clearSlotsFrom(N, f, g, k) ==
    IF k > getFanIn(N, f) THEN N
    ELSE clearSlotsFrom(IF getDriver(N, f, k) = g
                        THEN setInputNonInverting(N, f, k) ELSE N,
                        f, g, k + 1)

RECURSIVE clearFollowers(_, _, _)
clearFollowers(N, g, j) ==
    IF j > getFanOut(N, g) THEN N
    ELSE clearFollowers(clearSlotsFrom(N, getFollow(N, g, j), g, 1),
                        g, j + 1)

\* move_shiftInverters, all followers invert: the code names the gate as
\* gates.at(i) in every statement, also after mergeEqGates erased an entry
shiftFire(N, i) ==
    LET g == N.gates[i]
        s1(M) == IF M.G[g].oinv THEN setOutputNonInverting(M, g)
                 ELSE setOutputInverting(M, g)
        unlink(M) == IF ~Ok(M) THEN M
                     ELSE IF ~InRange(M, i) THEN Throw(M)
                     ELSE setComplement(M, M.gates[i], NULL)
        s2(M) == IF M.G[g].comp # NULL
                 THEN unlink(mergeEqGates(M, M.G[g].comp, g))
                 ELSE M
        s3(M) == IF ~Ok(M) THEN M
                 ELSE IF ~InRange(M, i) THEN Throw(M)
                 ELSE [clearFollowers(M, M.gates[i], 1) EXCEPT !.ret = TRUE]
    IN s3(s2(s1(N)))

\* a duplicate left without drivers
conflictNoInputs(N, g, gate, j) == N

\* duplicate the drivers of g onto the new gate
RECURSIVE conflictCopyInputs(_, _, _, _)
conflictCopyInputs(N, g, gate, j) ==
    IF ~Ok(N) \/ j > getFanIn(N, g) THEN N
    ELSE LET d == getDriver(N, g, j)
             N1 == newInput(N, gate, d, isInputInverting(N, g, j))
         IN conflictCopyInputs(newFollow(N1, d, gate), g, gate, j + 1)

\* "change followers": the inverting followers of g move to gate
RECURSIVE moveInvertingFollowers(_, _, _, _)
moveInvertingFollowers(N, g, gate, j) ==
    IF ~Ok(N) \/ j > getFanOut(N, g) THEN N
    ELSE LET f == getFollow(N, g, j)
             k == FirstIdx(N.G[f].ins, g)
             s1(M) == swapDriver(newFollow(M, gate, f), f, g, gate)
             s2(M) == IF Ok(M) THEN setInputNonInverting(M, f, k) ELSE M
             s3(M) == remFollow(M, g, f)
         IN IF k # 0 /\ N.G[f].inv[k]
            THEN moveInvertingFollowers(s3(s2(s1(N))), g, gate, j)
            ELSE moveInvertingFollowers(N, g, gate, j + 1)

\* move_shiftInverters, conflict branch with solveConflict
shiftConflict(N, i) ==
    LET g == N.gates[i] IN
    IF N.G[g].comp = NULL
    THEN LET gate == NextId(N)
             N1 == setPlacement(setFunction(NewGate(N), gate, N.G[g].fn),
                                gate, N.G[g].pl)
             N2 == setComplement(setComplement(N1, gate, g), g, gate)
             N3 == [setOutputInverting(N2, gate)
                       EXCEPT !.gates = Append(@, gate)]
             N4 == conflictCopyInputs(N3, g, gate, 1)
         IN moveInvertingFollowers(N4, g, gate, 1)
    ELSE moveInvertingFollowers(N, g, N.G[g].comp, 1)

\* the loop of move_shiftInverters
RECURSIVE shiftLoop(_, _, _)
shiftLoop(N, i, solveConflict) ==
    IF ~Ok(N) \/ i > Len(N.gates) THEN N
    ELSE LET g == N.gates[i]
             c == countInverted(N, g, 1)
             fanOut == getFanOut(N, g)
         IN IF c[1] = fanOut /\ c[1] # c[2]
            THEN shiftLoop(shiftFire(N, i), i + 1, solveConflict)
            ELSE IF c[1] # fanOut /\ c[1] # 0 /\ solveConflict
            THEN [shiftConflict(N, i) EXCEPT !.ret = TRUE]
            ELSE shiftLoop(N, i + 1, solveConflict)

\* BooleanNet::move_shiftInverters
move_shiftInverters(N, solveConflict) ==
    shiftLoop([N EXCEPT !.ret = FALSE], 1, solveConflict)

\* the loop of move_shiftInverters(true) up to its conflict branch: the
\* network as the branch finds it and the index i, 0 when the loop ends
\* without a conflict
RECURSIVE shiftReach(_, _)
shiftReach(N, i) ==
    IF ~Ok(N) \/ i > Len(N.gates) THEN [at |-> N, i |-> 0]
    ELSE LET g == N.gates[i]
             c == countInverted(N, g, 1)
             fanOut == getFanOut(N, g)
         IN IF c[1] = fanOut /\ c[1] # c[2]
            THEN shiftReach(shiftFire(N, i), i + 1)
            ELSE IF c[1] # fanOut /\ c[1] # 0
            THEN [at |-> N, i |-> i]
            ELSE shiftReach(N, i + 1)

\* BooleanNet::move_changeToEqGates
RECURSIVE moveEqLoop(_, _)
moveEqLoop(N, i) ==
    IF i > Len(N.gates) THEN N
    ELSE LET g == N.gates[i] IN
         IF N.G[g].oinv
         THEN LET N1 == setFunction(N, g, SwapFn(N.G[g].fn))
                  N2 == setOutputNonInverting(N1, g)
              IN moveEqLoop([toggleInputs(N2, g, 1) EXCEPT !.ret = TRUE],
                            i + 1)
         ELSE moveEqLoop(N, i + 1)

move_changeToEqGates(N) ==
    IF ~Ok(N) THEN N ELSE moveEqLoop([N EXCEPT !.ret = FALSE], 1)

\* BooleanNet::moveout_changeToEqGates
AllInputsInverting(N, g) ==
    \A j \in 1..Len(N.G[g].inv) : N.G[g].inv[j]

RECURSIVE clearInputs(_, _, _)
clearInputs(N, g, j) ==
    IF j > getFanIn(N, g) THEN N
    ELSE clearInputs(setInputNonInverting(N, g, j), g, j + 1)

RECURSIVE moveoutEqLoop(_, _)
moveoutEqLoop(N, i) ==
    IF i > Len(N.gates) THEN N
    ELSE LET g == N.gates[i] IN
         IF ~N.G[g].oinv
         THEN LET N1 == IF AllInputsInverting(N, g)
                        THEN clearInputs(
                               setOutputInverting(
                                 setFunction(N, g, SwapFn(N.G[g].fn)), g),
                               g, 1)
                        ELSE N
              IN moveoutEqLoop([N1 EXCEPT !.ret = TRUE], i + 1)
         ELSE moveoutEqLoop(N, i + 1)

moveout_changeToEqGates(N) ==
    IF ~Ok(N) THEN N ELSE moveoutEqLoop([N EXCEPT !.ret = FALSE], 1)

\* BooleanNet::moveout_detectTreeOfInverters
RECURSIVE moveout_detectTreeOfInverters(_, _, _)
RECURSIVE detectInputs(_, _, _, _)
moveout_detectTreeOfInverters(N, gate, depth) ==
    IF N.G[gate].depth < depth \/ N.G[gate].pl = "INPUT" THEN FALSE
    ELSE detectInputs(N, gate, depth, 1)

detectInputs(N, gate, depth, i) ==
    IF i > getFanIn(N, gate) THEN TRUE
    ELSE LET d == getDriver(N, gate, i) IN
         IF isInputInverting(N, gate, i)
         THEN detectInputs(N, gate, depth, i + 1)
         ELSE IF d = NULL THEN FALSE
         ELSE IF N.G[d].oinv /\ getFanOut(N, d) = 1
         THEN detectInputs(N, gate, depth, i + 1)
         ELSE IF getFanOut(N, d) > 1 THEN FALSE
         ELSE IF moveout_detectTreeOfInverters(N, d, depth)
         THEN detectInputs(N, gate, depth, i + 1)
         ELSE FALSE

\* the loops below may not end; a pass that uses up its budget of
\* MaxIter rounds is recorded as st = "loop"
OutOfFuel(N) == [N EXCEPT !.st = "loop"]

\* BooleanNet::moveout_moveInvertersInTreeOfInverters
RECURSIVE moveout_moveInvertersInTreeOfInverters(_, _, _)
RECURSIVE moveTreeInputs(_, _, _, _)
moveout_moveInvertersInTreeOfInverters(N, gate, fuel) ==
    IF ~Ok(N) THEN N
    ELSE IF fuel = 0 THEN OutOfFuel(N)
    ELSE changeToEqGate(moveTreeInputs(N, gate, 1, fuel), gate)

moveTreeInputs(N, gate, i, fuel) ==
    IF ~Ok(N) \/ i > getFanIn(N, gate) THEN N
    ELSE IF fuel = 0 THEN OutOfFuel(N)
    ELSE LET d == getDriver(N, gate, i)
             s1(M) == setInputInverting(setOutputNonInverting(M, d),
                                        gate, i)
             unlink(M, d2) == IF ~Ok(M) THEN M
                              ELSE IF ~Valid(M, d2) THEN Fault(M, d2)
                              ELSE setComplement(M, d2, NULL)
             relink(M) == unlink(M, getDriver(M, gate, i))
             s2(M) == IF M.G[d].comp # NULL
                      THEN relink(mergeEqGates(M, M.G[d].comp, d))
                      ELSE M
         IN
         IF isInputInverting(N, gate, i)
         THEN moveTreeInputs(N, gate, i + 1, fuel)
         ELSE IF ~Valid(N, d) THEN Fault(N, d)
         ELSE IF N.G[d].oinv /\ getFanOut(N, d) = 1
         THEN moveTreeInputs(s2(s1(N)), gate, i + 1, fuel)
         ELSE moveTreeInputs(
                 moveout_moveInvertersInTreeOfInverters(N, d, fuel - 1),
                 gate, i, fuel - 1)

\* BooleanNet::moveout_shiftInvertersToOutputs
RECURSIVE shiftOutPass(_, _)
shiftOutPass(N, i) ==
    IF ~Ok(N) \/ i > Len(N.outputs) THEN N
    ELSE LET o == N.outputs[i] IN
         IF moveout_detectTreeOfInverters(N, o, 0)
         THEN shiftOutPass(
                 [moveout_moveInvertersInTreeOfInverters(N, o, MaxIter)
                     EXCEPT !.ret = TRUE], i + 1)
         ELSE shiftOutPass(N, i + 1)

RECURSIVE shiftOutRepeat(_, _)
shiftOutRepeat(N, fuel) ==
    LET again(M) == IF Ok(M) /\ M.ret THEN shiftOutRepeat(M, fuel - 1)
                    ELSE M
    IN IF ~Ok(N) THEN N
       ELSE IF fuel = 0 THEN OutOfFuel(N)
       ELSE again(shiftOutPass([N EXCEPT !.ret = FALSE], 1))

moveout_shiftInvertersToOutputs(N) == shiftOutRepeat(N, MaxIter)

\* BooleanNet::move_shiftInvertersToInputBuffers
inputConflict(N, g) ==
    IF N.G[g].comp = NULL
    THEN LET gate == NextId(N)
             N1 == setPlacement(setFunction(NewGate(N), gate, "BUFFER"),
                                gate, "INPUT")
             N2 == newFollow(newInput(N1, gate, g, FALSE), g, gate)
             N3 == resetDepth(setOutputInverting(N2, gate), gate)
             N4 == [N3 EXCEPT !.inputs = Append(@, gate)]
         IN moveInvertingFollowers(N4, g, gate, 1)
    ELSE moveInvertingFollowers(N, g, N.G[g].comp, 1)

RECURSIVE inputBufLoop(_, _)
inputBufLoop(N, i) ==
    IF ~Ok(N) \/ i > Len(N.inputs) THEN N
    ELSE LET g == N.inputs[i]
             c == countInverted(N, g, 1)
         IN IF c[1] = getFanOut(N, g)
            THEN LET N1 == IF N.G[g].oinv THEN setOutputNonInverting(N, g)
                           ELSE setOutputInverting(N, g)
                 IN inputBufLoop(clearFollowers(N1, g, 1), i + 1)
            ELSE IF c[1] # 0
            THEN inputBufLoop(inputConflict(N, g), i + 1)
            ELSE inputBufLoop(N, i + 1)

move_shiftInvertersToInputBuffers(N) == inputBufLoop(N, 1)

\* BooleanNet::move_shiftInvertersInOutputBuffers
RECURSIVE outputBufLoop(_, _)
outputBufLoop(N, i) ==
    IF ~Ok(N) \/ i > Len(N.outputs) THEN N
    ELSE LET o == N.outputs[i] IN
         outputBufLoop(IF isInputInverting(N, o, 1)
                       THEN setOutputInverting(
                               setInputNonInverting(N, o, 1), o)
                       ELSE N, i + 1)

move_shiftInvertersInOutputBuffers(N) == outputBufLoop(N, 1)

\* the inner while loop of moveInverters; the result's ret tells whether
\* any round set run
RECURSIVE moveInner(_, _, _)
moveInner(N, ran, fuel) ==
    LET s1(M) == moveout_changeToEqGates(M)
        s2(M) == IF Ok(M) /\ M.ret
                 THEN move_changeToEqGates(
                         moveout_shiftInvertersToOutputs(M))
                 ELSE M
        s3(M) == move_shiftInverters(M, FALSE)
        loop(M, r3) == IF ~Ok(M) THEN M
                       ELSE IF r3 \/ M.ret THEN moveInner(M, TRUE, fuel - 1)
                       ELSE [M EXCEPT !.ret = ran]
        s4(M) == loop(move_changeToEqGates(M), M.ret)
    IN IF ~Ok(N) THEN N
       ELSE IF fuel = 0 THEN OutOfFuel(N)
       ELSE s4(s3(s2(s1(N))))

\* the outer while loop
RECURSIVE moveOuter(_, _)
moveOuter(N, fuel) ==
    LET loop(M, r1) == IF ~Ok(M) THEN M
                       ELSE IF r1 \/ M.ret THEN moveOuter(M, fuel - 1)
                       ELSE M
        s2(M) == loop(move_shiftInverters(M, TRUE), M.ret)
    IN IF ~Ok(N) THEN N
       ELSE IF fuel = 0 THEN OutOfFuel(N)
       ELSE s2(moveInner(N, FALSE, MaxIter))

\* BooleanNet::moveInverters
moveInverters(N) ==
    move_shiftInvertersInOutputBuffers(
        move_shiftInvertersToInputBuffers(moveOuter(N, MaxIter)))

\* ======================================================= enableAltSpacer
\* "convert to negative gates"
RECURSIVE altNegative(_, _)
altNegative(N, i) ==
    IF i > Len(N.gates) THEN N
    ELSE altNegative(setOutputInverting(N, N.gates[i]), i + 1)

\* a follower whose depth has the parity of the gate's depth
altSameParity(N, g, f) == (N.G[f].depth % 2) = (N.G[g].depth % 2)

altUnbalanced(N, g) ==
    Cardinality({j \in 1..getFanOut(N, g) :
                    altSameParity(N, g, getFollow(N, g, j))})

\* the rewiring loop of one gate: follower j of the gate goes behind inv1,
\* follower j of the complement behind inv0; after the two remFollow calls
\* slot j is looked at again
RECURSIVE altRewire(_, _, _, _, _)
altRewire(N, g, inv0, inv1, j) ==
    IF ~Ok(N) \/ j > getFanOut(N, g) THEN N
    ELSE IF altSameParity(N, g, getFollow(N, g, j))
    THEN LET c == N.G[g].comp
             s1(M) == swapDriver(M, getFollow(M, g, j), g, inv1)
             s2(M) == IF ~Ok(M) THEN M
                      ELSE IF ~Valid(M, c) THEN Fault(M, c)
                      ELSE swapDriver(M, getFollow(M, c, j), c, inv0)
             s3(M) == IF ~Ok(M) THEN M
                      ELSE newFollow(M, inv0, getFollow(M, c, j))
             s4(M) == IF ~Ok(M) THEN M
                      ELSE newFollow(M, inv1, getFollow(M, g, j))
             s5(M) == IF ~Ok(M) THEN M
                      ELSE remFollow(M, g, getFollow(M, g, j))
             s6(M) == IF ~Ok(M) THEN M
                      ELSE remFollow(M, c, getFollow(M, c, j))
         IN altRewire(s6(s5(s4(s3(s2(s1(N)))))), g, inv0, inv1, j)
    ELSE altRewire(N, g, inv0, inv1, j + 1)

\* "insert inverters": the balancer twins of one gate
altInsert(N, g) ==
    LET inv0 == NextId(N)
        inv1 == NextId(N) + 1
        c == N.G[g].comp
        N1 == NewGate(NewGate(N))
        N2 == setComplement(setComplement(N1, inv0, inv1), inv1, inv0)
        N3 == setFunction(setFunction(N2, inv0, "BUFFER"), inv1, "BUFFER")
        N4 == setOutputInverting(setOutputInverting(N3, inv0), inv1)
        N5 == setPlacement(setPlacement(N4, inv0, "INNER"), inv1, "INNER")
        N6 == newFollow(newInput(N5, inv0, g, FALSE), g, inv0)
        N7 == IF ~Ok(N6) THEN N6
              ELSE IF ~Valid(N6, c) THEN Fault(N6, c)
              ELSE newFollow(newInput(N6, inv1, c, FALSE), c, inv1)
        N8 == IF ~Ok(N7) THEN N7
              ELSE [N7 EXCEPT !.tmp = @ \o <<inv0, inv1>>]
    IN altRewire(N8, g, inv0, inv1, 1)

\* "insert inverter-based balancing": the first half of the gate list
RECURSIVE altBalance(_, _, _)
altBalance(N, i, half) ==
    IF ~Ok(N) \/ i > half THEN N
    ELSE LET g == N.gates[i] IN
         IF altUnbalanced(N, g) = 0
         THEN altBalance(N, i + 1, half)
         ELSE altBalance(altInsert(N, g), i + 1, half)

\* BooleanNet::enableAltSpacer
enableAltSpacer(N) ==
    IF ~Ok(N) THEN N
    ELSE FlushTmp(altBalance(altNegative(N, 1), 1,
                             (Len(N.gates) + 1) \div 2), "gates")

\* ============================================================ place2Rect
\* Gate::placeGate
placeGate(N, g, x, y) ==
    [N EXCEPT !.G[g].placed = TRUE, !.G[g].placeX = x, !.G[g].placeY = y]

\* int edge = sqrt(n): the square root, truncated
ISqrt(n) == CHOOSE r \in 0..n : r * r <= n /\ (r + 1) * (r + 1) > n

\* the followers pushed on the queue: those of depth d, in list order
RECURSIVE placeFollowers(_, _, _, _)
placeFollowers(N, g, d, j) ==
    IF j > getFanOut(N, g) THEN <<>>
    ELSE (IF N.G[getFollow(N, g, j)].depth = d
          THEN <<getFollow(N, g, j)>> ELSE <<>>)
         \o placeFollowers(N, g, d, j + 1)

RECURSIVE placeSeed(_, _)
placeSeed(N, i) ==
    IF i > Len(N.inputs) THEN <<>>
    ELSE placeFollowers(N, N.inputs[i], 1, 1) \o placeSeed(N, i + 1)

\* the while loop; (currX + 1) % edge with edge = 0 is a division by
\* zero: st = "fpe"
RECURSIVE placeLoop(_, _, _, _, _)
placeLoop(N, queue, currX, currY, edge) ==
    IF ~Ok(N) \/ queue = <<>> THEN N
    ELSE LET tmp == Head(queue) IN
         IF N.G[tmp].placed
         THEN placeLoop(N, Tail(queue), currX, currY, edge)
         ELSE LET N1 == placeGate(N, tmp, currX, currY) IN
              IF edge = 0 THEN [N1 EXCEPT !.st = "fpe"]
              ELSE LET x == (currX + 1) % edge
                       y == IF x = 0 THEN currY + 1 ELSE currY
                   IN placeLoop(N1,
                         Tail(queue)
                           \o placeFollowers(N1, tmp, N1.G[tmp].depth + 1, 1),
                         x, y, edge)

\* BooleanNet::place2Rect
place2Rect(N) ==
    LET done(M) == IF Ok(M) THEN [M EXCEPT !.netPlaced = TRUE] ELSE M
    IN IF ~Ok(N) THEN N
       ELSE done(placeLoop(N, placeSeed(N, 1), 0, 0, ISqrt(Len(N.gates))))

\* =========================================================== simulation
Xor(a, b) == a # b

\* (inVect & (1 << i)) != 0, i counted from 0
RECURSIVE Pow2(_)
Pow2(n) == IF n = 0 THEN 1 ELSE 2 * Pow2(n - 1)

Bit(inVect, i) == (inVect \div Pow2(i)) % 2 = 1

\* value presented at input slot i of g
SlotValue(N, g, i) == Xor(N.G[N.G[g].ins[i]].val, N.G[g].inv[i])

\* the XOR loop of computeOutputValue over slots i..fanIn
RECURSIVE XorSlots(_, _, _)
XorSlots(N, g, i) ==
    IF i > getFanIn(N, g) THEN FALSE
    ELSE Xor(SlotValue(N, g, i), XorSlots(N, g, i + 1))

\* Gate::computeOutputValue.  No case of the switch ends in a break: AND
\* and OR run on into the XOR case, which restarts from false, and every
\* case runs on into the BUFFER case.  A BUFFER enters at the BUFFER case
\* and reads `result` before anything was assigned to it: junk stands for
\* that indeterminate value.
computeOutputValue(N, g, junk) ==
    IF ~Ok(N) THEN N
    ELSE IF ~Valid(N, g) THEN Fault(N, g)
    ELSE IF \E i \in 1..getFanIn(N, g) : ~Valid(N, getDriver(N, g, i))
         THEN [N EXCEPT !.st = "null"]
    ELSE IF getFanIn(N, g) = 0 THEN Fault(N, NULL)
    ELSE LET start == IF N.G[g].fn \in {"AND", "OR", "XOR"}
                      THEN XorSlots(N, g, 1) ELSE junk
             result == Xor(start, SlotValue(N, g, 1))
         IN [N EXCEPT !.G[g].val = Xor(result, N.G[g].oinv)]

\* the first loop of simInVect: set the inputs, queue their followers
RECURSIVE simSetInputs(_, _, _, _)
simSetInputs(N, inVect, i, q) ==
    IF i > Len(N.inputs) \/ i > 32 THEN <<N, q>>
    ELSE LET g == N.inputs[i] IN
         simSetInputs([N EXCEPT !.G[g].val = Bit(inVect, i - 1)],
                      inVect, i + 1, q \o N.G[g].fol)

\* the second loop: breadth-first re-computation; fuel bounds the number
\* of gates taken off the queue
RECURSIVE simQueue(_, _, _, _)
simQueue(N, q, junk, fuel) ==
    LET g == Head(q)
        next(M) == simQueue(M, IF Ok(M) THEN Tail(q) \o M.G[g].fol
                               ELSE <<>>,
                            junk, fuel - 1)
    IN IF ~Ok(N) \/ q = <<>> THEN N
       ELSE IF fuel = 0 THEN OutOfFuel(N)
       ELSE next(computeOutputValue(N, g, junk[g]))

\* BooleanNet::simInVect; junk[g] is what an evaluation of gate g reads
\* from the unassigned `result`
simInVect(N, inVect, junk) ==
    LET s == simSetInputs(N, inVect, 1, <<>>) IN
    simQueue(s[1], s[2], junk, MaxSimSteps)

\* what printSimOut prints: the values of the outputs in order
SimOut(N) == [i \in 1..Len(N.outputs) |-> N.G[N.outputs[i]].val]

\* the gates whose evaluation reads the unassigned `result`
ReadsJunk(N) ==
    {g \in 1..Len(N.G) :
        N.G[g].alive /\ N.G[g].fn = "BUFFER" /\ getFanIn(N, g) > 0}

\* the indeterminate values a run may read, one per such gate
JunkFns(N) ==
    {[g \in 1..Len(N.G) |-> g \in S] : S \in SUBSET ReadsJunk(N)}

\* the same indeterminate value at every read
JunkConst(N, b) == [g \in 1..Len(N.G) |-> b /\ g \in ReadsJunk(N)]

\* ================================================================ SCOAP
\* unsigned int arithmetic: a 32-bit value is the pair <<high, low>> of
\* its 16-bit limbs.  The stored cc0, cc1, co never exceed INT_MAX (they
\* start there and are only replaced by something smaller, or by 0 or 1)
\* and are kept as plain integers.
U32(n) == <<n \div Limb, n % Limb>>

AddU32(a, b) ==
    LET lo == a[2] + b[2]
        hi == a[1] + b[1] + (lo \div Limb)
    IN <<hi % Limb, lo % Limb>>

LtU32(a, b) == a[1] < b[1] \/ (a[1] = b[1] /\ a[2] < b[2])

IntOfU32(a) == a[1] * Limb + a[2]

get0Controlability(N, g) == U32(N.G[g].cc0)

get1Controlability(N, g) == U32(N.G[g].cc1)

getObservability(N, g) == U32(N.G[g].co)

MinU32(a, b) == IF LtU32(b, a) THEN b ELSE a

\* the loop of computeControlability over the input slots i..fanIn; acc is
\* the pair <<cc0, cc1>> of the locals
RECURSIVE ccLoop(_, _, _, _)
ccLoop(N, g, i, acc) ==
    IF i > getFanIn(N, g) THEN acc
    ELSE LET d == getDriver(N, g, i)
             d0 == get0Controlability(N, d)
             d1 == get1Controlability(N, d)
             inv == isInputInverting(N, g, i)
             next ==
               CASE N.G[g].fn = "AND" ->
                      IF inv THEN <<MinU32(acc[1], d1), AddU32(acc[2], d0)>>
                      ELSE <<MinU32(acc[1], d0), AddU32(acc[2], d1)>>
                 [] N.G[g].fn = "OR" ->
                      IF inv THEN <<AddU32(acc[1], d1), MinU32(acc[2], d0)>>
                      ELSE <<AddU32(acc[1], d0), MinU32(acc[2], d1)>>
                 [] OTHER ->
                      IF inv THEN <<AddU32(acc[1], d1), AddU32(acc[2], d0)>>
                      ELSE <<AddU32(acc[1], d0), AddU32(acc[2], d1)>>
         IN ccLoop(N, g, i + 1, next)

\* the initial values of the locals cc0, cc1
ccStart(fn) ==
    CASE fn = "AND" -> <<U32(INT_MAX), U32(0)>>
      [] fn = "OR" -> <<U32(0), U32(INT_MAX)>>
      [] OTHER -> <<U32(0), U32(0)>>

\* Gate::computeControlability
RECURSIVE computeControlability(_, _)
RECURSIVE ccFollowers(_, _, _)
computeControlability(N, g) ==
    LET put0(M, new0) == IF LtU32(new0, U32(M.G[g].cc0))
                         THEN [M EXCEPT !.G[g].cc0 = IntOfU32(new0)] ELSE M
        put1(M, new1) == IF LtU32(new1, U32(M.G[g].cc1))
                         THEN [M EXCEPT !.G[g].cc1 = IntOfU32(new1)] ELSE M
        spread(M) == IF M.G[g].cc0 # N.G[g].cc0 \/ M.G[g].cc1 # N.G[g].cc1
                     THEN ccFollowers(M, g, 1) ELSE M
        store(cc0, cc1) ==
            IF N.G[g].oinv
            THEN spread(put1(put0(N, AddU32(cc1, U32(1))),
                             AddU32(cc0, U32(1))))
            ELSE spread(put1(put0(N, AddU32(cc0, U32(1))),
                             AddU32(cc1, U32(1))))
        locals(acc) == store(acc[1], acc[2])
    IN IF ~Ok(N) THEN N
       ELSE IF ~Valid(N, g) THEN Fault(N, g)
       ELSE IF \E i \in 1..getFanIn(N, g) : ~Valid(N, getDriver(N, g, i))
            THEN [N EXCEPT !.st = "null"]
       ELSE locals(ccLoop(N, g, 1, ccStart(N.G[g].fn)))

ccFollowers(N, g, i) ==
    IF ~Ok(N) \/ i > getFanOut(N, g) THEN N
    ELSE ccFollowers(computeControlability(N, getFollow(N, g, i)), g, i + 1)

\* Gate::setControlability
setControlability(N, g, cc0, cc1) ==
    IF ~Ok(N) THEN N
    ELSE IF ~Valid(N, g) THEN Fault(N, g)
    ELSE ccFollowers([N EXCEPT !.G[g].cc0 = cc0, !.G[g].cc1 = cc1], g, 1)

\* ccSum of computeObservability: the other slots j.. of follower f
RECURSIVE ccSumLoop(_, _, _, _)
ccSumLoop(N, g, f, j) ==
    IF j > getFanIn(N, f) THEN U32(0)
    ELSE LET d == getDriver(N, f, j)
             rest == ccSumLoop(N, g, f, j + 1)
         IN IF d = g THEN rest
            ELSE IF N.G[f].fn = "AND"
            THEN AddU32(rest, IF isInputInverting(N, f, j)
                              THEN get1Controlability(N, d)
                              ELSE get0Controlability(N, d))
            ELSE AddU32(rest, IF isInputInverting(N, f, j)
                              THEN get0Controlability(N, d)
                              ELSE get1Controlability(N, d))

\* coNext for follower f of g
coNext(N, g, f) ==
    IF N.G[f].fn \in {"AND", "OR"}
    THEN AddU32(AddU32(getObservability(N, f), ccSumLoop(N, g, f, 1)),
                U32(1))
    ELSE AddU32(getObservability(N, f), U32(1))

\* the loop over the followers: scoapParams.co is lowered in place
RECURSIVE coLoop(_, _, _)
coLoop(N, g, i) ==
    IF i > getFanOut(N, g) THEN N
    ELSE LET next == coNext(N, g, getFollow(N, g, i)) IN
         IF LtU32(next, U32(N.G[g].co))
         THEN coLoop([N EXCEPT !.G[g].co = IntOfU32(next)], g, i + 1)
         ELSE coLoop(N, g, i + 1)

\* Gate::computeObservability
RECURSIVE computeObservability(_, _)
RECURSIVE coDrivers(_, _, _)
computeObservability(N, g) ==
    LET spread(M) == IF M.G[g].co # N.G[g].co THEN coDrivers(M, g, 1)
                     ELSE M
    IN IF ~Ok(N) THEN N
       ELSE IF ~Valid(N, g) THEN Fault(N, g)
       ELSE IF \E i \in 1..getFanOut(N, g) :
                 \/ ~Valid(N, getFollow(N, g, i))
                 \/ \E j \in 1..getFanIn(N, getFollow(N, g, i)) :
                       ~Valid(N, getDriver(N, getFollow(N, g, i), j))
            THEN [N EXCEPT !.st = "null"]
       ELSE spread(coLoop(N, g, 1))

coDrivers(N, g, i) ==
    IF ~Ok(N) \/ i > getFanIn(N, g) THEN N
    ELSE coDrivers(computeObservability(N, getDriver(N, g, i)), g, i + 1)

\* Gate::setObservability
setObservability(N, g, co) ==
    IF ~Ok(N) THEN N
    ELSE IF ~Valid(N, g) THEN Fault(N, g)
    ELSE coDrivers([N EXCEPT !.G[g].co = co], g, 1)

\* the seeding loops of computeSumScoap
RECURSIVE seedCC(_, _, _)
seedCC(N, list, i) ==
    IF ~Ok(N) \/ i > Len(list) THEN N
    ELSE seedCC(setControlability(N, list[i], 1, 1), list, i + 1)

RECURSIVE seedCO(_, _, _)
seedCO(N, list, i) ==
    IF ~Ok(N) \/ i > Len(list) THEN N
    ELSE seedCO(setObservability(N, list[i], 0), list, i + 1)

\* netSumScoap, an unsigned int
RECURSIVE sumScoap(_, _)
sumScoap(N, i) ==
    IF i > Len(N.gates) THEN U32(0)
    ELSE LET g == N.gates[i] IN
         AddU32(sumScoap(N, i + 1),
                AddU32(AddU32(get0Controlability(N, g),
                              get1Controlability(N, g)),
                       getObservability(N, g)))

\* BooleanNet::computeSumScoap
computeSumScoap(N) ==
    LET s1(M) == seedCC(M, M.inputs, 1)
        s2(M) == seedCC(M, M.buffers, 1)
        s3(M) == seedCO(M, M.outputs, 1)
        s4(M) == seedCO(M, M.buffers, 1)
        s5(M) == IF Ok(M) THEN [M EXCEPT !.netSumScoap = sumScoap(M, 1)]
                 ELSE M
    IN s5(s4(s3(s2(s1(N)))))

\* ==================================================== InsertBuffsByScoap
\* unsigned int product: schoolbook multiplication on 8-bit digits, the
\* digits above the fourth dropped
Bytes(a) == <<a[2] % 256, a[2] \div 256, a[1] % 256, a[1] \div 256>>

MulU32(a, b) ==
    LET x == Bytes(a)
        y == Bytes(b)
        c0 == x[1] * y[1]
        c1 == x[1] * y[2] + x[2] * y[1] + (c0 \div 256)
        c2 == x[1] * y[3] + x[2] * y[2] + x[3] * y[1] + (c1 \div 256)
        c3 == x[1] * y[4] + x[2] * y[3] + x[3] * y[2] + x[4] * y[1]
              + (c2 \div 256)
    IN <<(c3 % 256) * 256 + (c2 % 256), (c1 % 256) * 256 + (c0 % 256)>>

\* the number gateScoapComparator compares
scoapProduct(N, g) ==
    MulU32(MulU32(getObservability(N, g), get0Controlability(N, g)),
           get1Controlability(N, g))

\* gateScoapComparator::operator()
gateScoapComparator(N, g0, g1) ==
    LtU32(scoapProduct(N, g1), scoapProduct(N, g0))

\* the gates the first loop pushes on maxHeap; a NULL follower cannot be
\* stored (newFollow ignores it), so "skipGate 2" never applies
pushedOnHeap(N, g) ==
    /\ N.G[g].fn # "BUFFER"
    /\ ~(getFanOut(N, g) = 1 /\ N.G[getFollow(N, g, 1)].fn = "BUFFER")

\* priority_queue::top: an element no other element is ordered after by
\* the comparator; which of several such elements is unspecified
Tops(N, heap) ==
    {g \in heap : \A h \in heap : ~gateScoapComparator(N, g, h)}

\* the sequences in which top()/pop() can empty the heap
RECURSIVE PopOrders(_, _)
PopOrders(N, heap) ==
    IF heap = {} THEN {<<>>}
    ELSE UNION {{<<g>> \o o : o \in PopOrders(N, heap \ {g})} :
                    g \in Tops(N, heap)}

\* for (j ...) buff->newFollow(..); ..->swapDriver(top, buff)
RECURSIVE buffTakeFollowers(_, _, _, _)
buffTakeFollowers(N, top, buff, j) ==
    IF ~Ok(N) \/ j > getFanOut(N, top) THEN N
    ELSE LET f == getFollow(N, top, j) IN
         buffTakeFollowers(swapDriver(newFollow(N, buff, f), f, top, buff),
                           top, buff, j + 1)

\* while (top->getFanOut()) top->remFollow(top->getFollow(0))
RECURSIVE dropFollowers(_, _)
dropFollowers(N, top) ==
    IF ~Ok(N) \/ getFanOut(N, top) = 0 THEN N
    ELSE dropFollowers(remFollow(N, top, getFollow(N, top, 1)), top)

\* one round of the second loop
insertBuff(N, top) ==
    LET buff == NextId(N)
        s1(M) == setPlacement(
                   setOutputNonInverting(
                     setFunction(M, buff, "BUFFER"), buff),
                   buff, "INNER")
        s2(M) == dropFollowers(buffTakeFollowers(M, top, buff, 1), top)
        s3(M) == newInput(newFollow(M, top, buff), buff, top, FALSE)
        s4(M) == IF Ok(M) THEN [M EXCEPT !.tmp = Append(@, buff)] ELSE M
    IN s4(s3(s2(s1(NewGate(N)))))

\* the second loop: i is 0 at every test (i-- in the body, then i++), so
\* it runs while the heap is not empty and 0 < places
RECURSIVE insertLoop(_, _, _, _)
insertLoop(N, places, order, k) ==
    IF ~Ok(N) \/ k > Len(order) \/ ~(0 < places) THEN N
    ELSE insertLoop(insertBuff(N, order[k]), places, order, k + 1)

\* the eligible gates
HeapOf(N) == {N.gates[i] : i \in {k \in 1..Len(N.gates) :
                                     pushedOnHeap(N, N.gates[k])}}

\* BooleanNet::InsertBuffsByScoap; order is the order of the pops
InsertBuffsByScoap(N, places, order) ==
    IF \E i \in 1..Len(N.gates) :
          \/ ~Valid(N, N.gates[i])
          \/ \E j \in 1..getFanOut(N, N.gates[i]) :
                ~Valid(N, getFollow(N, N.gates[i], j))
    THEN [N EXCEPT !.st = "freed"]
    ELSE FlushTmp(insertLoop(N, places, order, 1), "gates+buffers")

\* ============================================================== convNAND
\* the first loop nest: the followers (with multiplicity) that have an
\* inverting slot driven by g; the scan of a follower stops at the first
\* such slot
RECURSIVE nandInvertedFollowers(_, _, _)
nandInvertedFollowers(N, g, j) ==
    IF j > getFanOut(N, g) THEN 0
    ELSE LET f == getFollow(N, g, j)
             hit == \E k \in 1..getFanIn(N, f) :
                       getDriver(N, f, k) = g /\ isInputInverting(N, f, k)
         IN (IF hit THEN 1 ELSE 0) + nandInvertedFollowers(N, g, j + 1)

\* a test that is satisfied by one inverting follower
nandFiresOnAny(N, g) == nandInvertedFollowers(N, g, 1) > 0

\* if (invertedFollowers == gates.at(i)->getFanOut())
nandFires(N, g) == nandInvertedFollowers(N, g, 1) = getFanOut(N, g)

\* the body of that if: clear the followers' bits, then toggle the output,
\* a BUFFER passing the inverter on to its driver
nandMove(N, g) ==
    LET M == clearFollowers(N, g, 1) IN
    IF M.G[g].oinv THEN setOutputNonInverting(M, g)
    ELSE IF M.G[g].fn = "BUFFER"
         THEN IF getFanIn(M, g) = 1
              THEN setOutputInverting(M, getDriver(M, g, 1)) ELSE M
    ELSE setOutputInverting(M, g)

RECURSIVE nandLoop(_, _)
nandLoop(N, i) ==
    IF ~Ok(N) \/ i > Len(N.gates) THEN N
    ELSE LET g == N.gates[i] IN
         IF ~Valid(N, g) THEN Fault(N, g)
         ELSE IF \E j \in 1..getFanOut(N, g) : ~Valid(N, getFollow(N, g, j))
              THEN [N EXCEPT !.st = "freed"]
         ELSE nandLoop(IF nandFires(N, g) THEN nandMove(N, g) ELSE N, i + 1)

\* BooleanNet::convNAND
convNAND(N) == nandLoop(N, 1)

\* ============================================================== coloring
\* the bits of Gate::color: a color is the set of its bits, COLORS_EMPTY
\* the empty set
Colors == {"INTREE", "OUTTREE", "DUALBASE"}

\* Gate::addColor: color |= c
addColor(N, g, c) ==
    IF ~Valid(N, g) THEN Fault(N, g)
    ELSE [N EXCEPT !.G[g].color = @ \cup c]

\* Gate::hasColor
hasColor(N, g, c) == c = {} \/ N.G[g].color \cap c # {}

\* a loop that pushes the driver of slot 0 only
pushDriversFirst(N, tmp, i, stack) ==
    IF i > getFanIn(N, tmp) THEN stack
    ELSE <<getDriver(N, tmp, i)>> \o stack

\* for (i ...) gates.push(tmp->getDriver(i)): the last driver ends on top
RECURSIVE pushDrivers(_, _, _, _)
pushDrivers(N, tmp, i, stack) ==
    IF i > getFanIn(N, tmp) THEN stack
    ELSE pushDrivers(N, tmp, i + 1, <<getDriver(N, tmp, i)>> \o stack)

\* the while loop of colorInTree; Head(stack) is gates.top()
RECURSIVE colorLoop(_, _, _, _)
colorLoop(N, stack, color, fuel) ==
    IF ~Ok(N) \/ stack = <<>> THEN N
    ELSE IF fuel = 0 THEN OutOfFuel(N)
    ELSE LET tmp == Head(stack)
             M == addColor(N, tmp, color)
         IN IF ~Ok(M) THEN M
            ELSE colorLoop(M, pushDrivers(M, tmp, 1, Tail(stack)), color,
                           fuel - 1)

\* BooleanNet::colorInTree
colorInTree(N, gate, color) ==
    colorLoop(N, <<gate>>, color, MaxColorSteps)

\* ======================================================== colorBaseGates
\* a loop that colors every gate of the gate list
baseColoredAll(N, g, c) == TRUE

\* the gate of the gate list colorBaseGates colors: one without complement,
\* or one whose complement does not carry the color yet
baseColored(N, g, c) ==
    N.G[g].comp = NULL \/ ~hasColor(N, N.G[g].comp, c)

RECURSIVE colorBaseLoop(_, _, _)
colorBaseLoop(N, i, c) ==
    IF ~Ok(N) \/ i > Len(N.gates) THEN N
    ELSE LET g == N.gates[i] IN
         IF N.G[g].comp # NULL /\ ~N.G[N.G[g].comp].alive
         THEN Fault(N, N.G[g].comp)
         ELSE colorBaseLoop(IF baseColored(N, g, c) THEN addColor(N, g, c)
                            ELSE N, i + 1, c)

RECURSIVE colorAll(_, _, _, _)
colorAll(N, list, i, c) ==
    IF ~Ok(N) \/ i > Len(list) THEN N
    ELSE colorAll(addColor(N, list[i], c), list, i + 1, c)

\* BooleanNet::colorBaseGates
colorBaseGates(N, c) ==
    LET s1(M) == colorBaseLoop(M, 1, c)
        s2(M) == colorAll(M, M.inputs, 1, c)
        s3(M) == colorAll(M, M.outputs, 1, c)
    IN IF ~Ok(N) THEN N ELSE s3(s2(s1(N)))

\* ================================================================ spec
\* the state of a run: the network, the network as loaded, the commands
\* executed so far, the AIGER file, the vector and the indeterminate reads
\* of the last simVect, and the number given to the last command (0 when
\* it takes none)
NoSim == [inVect |-> 0, junk |-> <<>>]

Loaded(plans) ==
    /\ plan \in plans
    /\ net = computeNetDepth(AagLoader(plan))
    /\ orig = net
    /\ hist = <<>>
    /\ sim = NoSim
    /\ arg = 0

\* main(): load the file, computeNetDepth, then the commands in order
Init == Loaded(Plans)

\* the commands that rebuild the network
Changing == {"dual", "dualAlt", "move", "buffByScoap", "nand"}

Changes(h) == Cardinality({i \in 1..Len(h) : h[i] \in Changing})

\* a crashed run executes no further command
CanStep == Len(hist) < MaxOps /\ Ok(net)

CanChange == CanStep /\ Changes(hist) < MaxChanges

\* command "dual"
cmd_dual ==
    /\ CanChange
    /\ net' = convDualRail(net)
    /\ hist' = Append(hist, "dual")
    /\ arg' = 0
    /\ UNCHANGED <<orig, plan, sim>>

\* command "move"
cmd_move ==
    /\ CanChange
    /\ net' = moveInverters(net)
    /\ hist' = Append(hist, "move")
    /\ arg' = 0
    /\ UNCHANGED <<orig, plan, sim>>

\* command "scoap"
cmd_scoap ==
    /\ CanStep
    /\ net' = computeSumScoap(net)
    /\ hist' = Append(hist, "scoap")
    /\ arg' = 0
    /\ UNCHANGED <<orig, plan, sim>>

\* command "buffByScoap C"
cmd_InsertBuffsByScoap ==
    /\ CanChange
    /\ \E count \in 0..MaxPlaces :
         /\ arg' = count
         /\ IF count > 0
            THEN \E order \in PopOrders(net, HeapOf(net)) :
                   net' = computeNetDepth(
                            InsertBuffsByScoap(net, count, order))
            ELSE net' = net
    /\ hist' = Append(hist, "buffByScoap")
    /\ UNCHANGED <<orig, plan, sim>>

\* command "simVect VECT"
cmd_simVect ==
    /\ CanStep
    /\ Cardinality({i \in 1..Len(hist) : hist[i] = "simVect"}) < MaxSims
    /\ \E inVect \in 0..(Pow2(Len(net.inputs)) - 1), junk \in JunkFns(net) :
         /\ net' = simInVect(net, inVect, junk)
         /\ sim' = [inVect |-> inVect, junk |-> junk]
         /\ arg' = inVect
    /\ hist' = Append(hist, "simVect")
    /\ UNCHANGED <<orig, plan>>

\* command "nand"
cmd_nand ==
    /\ CanChange
    /\ net' = convNAND(net)
    /\ hist' = Append(hist, "nand")
    /\ arg' = 0
    /\ UNCHANGED <<orig, plan, sim>>

\* a call colorInTree(gate, color) on a gate of the network
call_colorInTree ==
    /\ CanStep
    /\ Cardinality({i \in 1..Len(hist) : hist[i] = "colorInTree"})
          < MaxColorings
    /\ \E gate \in Range(net.gates) \cup Range(net.inputs)
                   \cup Range(net.outputs),
          color \in {{"INTREE"}, {"OUTTREE"}} :
         /\ net' = colorInTree(net, gate, color)
         /\ arg' = [gate |-> gate, color |-> color]
    /\ hist' = Append(hist, "colorInTree")
    /\ UNCHANGED <<orig, plan, sim>>

\* a call computeNetDepth()
call_computeNetDepth ==
    /\ CanStep
    /\ hist # <<>> /\ hist[Len(hist)] # "computeNetDepth"
    /\ net' = computeNetDepth(net)
    /\ hist' = Append(hist, "computeNetDepth")
    /\ arg' = 0
    /\ UNCHANGED <<orig, plan, sim>>

Next == cmd_dual \/ cmd_move \/ cmd_scoap \/ cmd_InsertBuffsByScoap

Spec == Init /\ [][Next]_vars

\* the simulator on the networks of at most MaxSimAnd AND lines
SimPlans == {p \in Plans : Len(p.ands) <= MaxSimAnd}

InitSim == Loaded(SimPlans)

NextSim == cmd_dual \/ cmd_move \/ cmd_simVect

SpecSim == InitSim /\ [][NextSim]_vars

\* ------------------------------------------------------- the AIGER header
\* a header field as strtol returns it, a long: <<q, r>> is q * 2^32 + r
\* with r < 2^31
Long(q, r) == <<q, r>>

\* this->M = strtol(..): the long is cut to the 32 bits of the int field
ToInt(v) == v[2]

\* the headers "aag M I L O A"; I, O and A count lines of the file, M and
\* L are free
Headers ==
    {[M |-> Long(qm, m), I |-> Long(0, i), L |-> Long(ql, l),
      O |-> Long(0, o), A |-> Long(0, a)] :
        qm \in 0..MaxWrap, m \in 0..(MaxLoadIn + MaxLatch + MaxLoadAnd),
        i \in 1..MaxLoadIn, ql \in 0..MaxWrap, l \in 0..MaxLatch,
        o \in 0..MaxLoadOut, a \in 0..MaxLoadAnd}

\* the two header checks of the constructor, on the int fields
HeaderChecks(h) ==
    /\ ~(ToInt(h.M) # ToInt(h.I) + ToInt(h.L) + ToInt(h.A))
    /\ ~(ToInt(h.L) # 0)

\* the files: a header and, when the constructor reads on, the output and
\* AND lines the header announces
FilesOf(h) ==
    IF HeaderChecks(h)
    THEN {[hdr |-> h, I |-> ToInt(h.I), outs |-> o, ands |-> a] :
             o \in [1..ToInt(h.O) -> OutLits(ToInt(h.I), ToInt(h.A))],
             a \in AndLines(ToInt(h.I), ToInt(h.A))}
    ELSE {[hdr |-> h, I |-> ToInt(h.I), outs |-> <<>>, ands |-> <<>>]}

Files == UNION {FilesOf(h) : h \in Headers}

\* *net when the constructor returned before `new BooleanNet`
Unbuilt == [BooleanNet(0, 0, 0) EXCEPT !.st = "unbuilt"]

\* AagLoader::isFileLoaded, read off the network
isFileLoaded(N) == N.st # "unbuilt"

\* the whole constructor: header checks, then the lines
AagLoaderFile(f) ==
    IF HeaderChecks(f.hdr) THEN AagLoader(f) ELSE Unbuilt

\* main(): a file that was not loaded ends the run with status 1 before
\* computeNetDepth and before the command loop
InitLoad ==
    /\ plan \in Files
    /\ net = (LET N == AagLoaderFile(plan) IN
              IF isFileLoaded(N) THEN computeNetDepth(N) ELSE N)
    /\ orig = net
    /\ hist = <<>>
    /\ sim = NoSim
    /\ arg = 0

NextLoad == cmd_scoap

SpecLoad == InitLoad /\ [][NextLoad]_vars

\* coloring on the networks of MaxColorIn inputs, as loaded and after a
\* transformation
ColorPlans == {p \in Plans : p.I <= MaxColorIn}

InitColor == Loaded(ColorPlans)

NextColor == cmd_dual \/ cmd_move \/ call_colorInTree

SpecColor == InitColor /\ [][NextColor]_vars

\* computeNetDepth on the networks of MaxDepthIn inputs, as loaded and
\* after a transformation
DepthPlans == {p \in Plans : p.I <= MaxDepthIn}

InitDepth == Loaded(DepthPlans)

NextDepth ==
    cmd_dual \/ cmd_move \/ cmd_InsertBuffsByScoap \/ call_computeNetDepth

SpecDepth == InitDepth /\ [][NextDepth]_vars

\* convNAND on the networks of MaxNandIn inputs, the last one x, and 1 + MaxNandFollowers AND
\* lines: the first gate is fed by x, every other gate by the first gate
\* and x, the output by the first gate
NandPlans ==
    LET x == {2 * MaxNandIn, 2 * MaxNandIn + 1}
        g == {2 * (MaxNandIn + 1), 2 * (MaxNandIn + 1) + 1}
    IN {[I |-> MaxNandIn, outs |-> <<o>>, ands |-> <<first>> \o rest] :
           o \in g, first \in x \X x,
           rest \in [1..MaxNandFollowers -> g \X x]}

InitNand == Loaded(NandPlans)

NextNand == cmd_nand

SpecNand == InitNand /\ [][NextNand]_vars

\* the files of the inverter-moving runs: MaxMoveAnd AND lines in
\* topological order (each line reads inputs and earlier lines only), the
\* output on the last line
MoveLits(k) == 2..(2 * (MaxMoveIn + k) - 1)

MovePlans ==
    LET top == 2 * (MaxMoveIn + MaxMoveAnd)
        all == 2..(top + 1)
    IN {[I |-> MaxMoveIn, outs |-> <<o>>, ands |-> a] :
           o \in {top, top + 1},
           a \in {b \in [1..MaxMoveAnd -> all \X all] :
                      \A k \in 1..MaxMoveAnd :
                          b[k][1] \in MoveLits(k) /\ b[k][2] \in MoveLits(k)}}

InitMove == Loaded(MovePlans)

NextMove == cmd_move

SpecMove == InitMove /\ [][NextMove]_vars

\* a command line of up to MaxSeqChanges rebuilding commands, "move" and
\* "nand" in any order, on the files of MaxSeqAnd AND lines in topological
\* order
SeqLits(k) == 2..(2 * (MaxSeqIn + k) - 1)

SeqPlans ==
    LET top == 2 * (MaxSeqIn + MaxSeqAnd)
        all == 2..(top + 1)
    IN {[I |-> MaxSeqIn, outs |-> <<o>>, ands |-> a] :
           o \in all,
           a \in {b \in [1..MaxSeqAnd -> all \X all] :
                      \A k \in 1..MaxSeqAnd :
                          b[k][1] \in SeqLits(k) /\ b[k][2] \in SeqLits(k)}}

CanChangeSeq == CanStep /\ Changes(hist) < MaxSeqChanges

\* command "move" of such a line
seq_move ==
    /\ CanChangeSeq
    /\ net' = moveInverters(net)
    /\ hist' = Append(hist, "move")
    /\ arg' = 0
    /\ UNCHANGED <<orig, plan, sim>>

\* command "nand" of such a line
seq_nand ==
    /\ CanChangeSeq
    /\ net' = convNAND(net)
    /\ hist' = Append(hist, "nand")
    /\ arg' = 0
    /\ UNCHANGED <<orig, plan, sim>>

InitSeq == Loaded(SeqPlans)

NextSeq == seq_move \/ seq_nand

SpecSeq == InitSeq /\ [][NextSeq]_vars

\* direct calls of Gate::remFollow and Gate::remInput on the first gate of
\* a network of 1 + MaxRemOthers inner gates whose follower and input
\* lists were filled by newFollow and newInput
RemGate == 1

RemOthers == 2..(1 + MaxRemOthers)

RemSeqs(S) == UNION {[1..n -> S] : n \in 0..MaxRemLen}

RemPlans ==
    {[fol |-> f, ins |-> d] :
        f \in RemSeqs(RemOthers), d \in RemSeqs(RemOthers \X BOOLEAN)}

\* newFollow / newInput insert at the front: the last call made fills slot 1
RECURSIVE RemFollows(_, _, _)
RemFollows(N, f, i) ==
    IF i = 0 THEN N
    ELSE RemFollows(newFollow(N, RemGate, f[i]), f, i - 1)

RECURSIVE RemInputs(_, _, _)
RemInputs(N, d, i) ==
    IF i = 0 THEN N
    ELSE RemInputs(newInput(N, RemGate, d[i][1], d[i][2]), d, i - 1)

RemBuild(p) ==
    RemInputs(RemFollows(BooleanNet(0, 0, 1 + MaxRemOthers),
                         p.fol, Len(p.fol)),
              p.ins, Len(p.ins))

InitRem ==
    /\ plan \in RemPlans
    /\ net = RemBuild(plan)
    /\ orig = net
    /\ hist = <<>>
    /\ sim = NoSim
    /\ arg = 0

call_remFollow ==
    /\ CanStep
    /\ \E f \in RemOthers :
          /\ net' = remFollow(net, RemGate, f)
          /\ arg' = [gate |-> RemGate, other |-> f]
    /\ hist' = Append(hist, "remFollow")
    /\ UNCHANGED <<orig, plan, sim>>

call_remInput ==
    /\ CanStep
    /\ \E d \in RemOthers :
          /\ net' = remInput(net, RemGate, d)
          /\ arg' = [gate |-> RemGate, other |-> d]
    /\ hist' = Append(hist, "remInput")
    /\ UNCHANGED <<orig, plan, sim>>

NextRem == call_remFollow \/ call_remInput

SpecRem == InitRem /\ [][NextRem]_vars

\* the first step of a pass of moveInverters, taken alone: net.ret is the
\* value moveout_changeToEqGates returns
call_moveout_changeToEqGates ==
    /\ CanStep
    /\ net' = moveout_changeToEqGates(net)
    /\ hist' = Append(hist, "moveout_changeToEqGates")
    /\ arg' = 0
    /\ UNCHANGED <<orig, plan, sim>>

InitEq == Loaded(SeqPlans)

NextEq == seq_nand \/ call_moveout_changeToEqGates

SpecEq == InitEq /\ [][NextEq]_vars

\* command "dualAlt"
cmd_dualAlt ==
    /\ CanChange
    /\ net' = enableAltSpacer(convDualRail(net))
    /\ hist' = Append(hist, "dualAlt")
    /\ arg' = 0
    /\ UNCHANGED <<orig, plan, sim>>

InitAlt == Loaded(MovePlans)

NextAlt == cmd_dualAlt

SpecAlt == InitAlt /\ [][NextAlt]_vars

\* command "place2rect"
cmd_place2net ==
    /\ CanStep
    /\ net' = place2Rect(net)
    /\ hist' = Append(hist, "place2rect")
    /\ arg' = 0
    /\ UNCHANGED <<orig, plan, sim>>

\* the files that are placed: 0..MaxPlaceAnd AND lines in topological
\* order, one output on any literal
PlaceLits(k) == 2..(2 * (MaxPlaceIn + k) - 1)

PlacePlans ==
    UNION {LET all == 2..(2 * (MaxPlaceIn + A) + 1)
           IN {[I |-> MaxPlaceIn, outs |-> <<o>>, ands |-> a] :
                  o \in all,
                  a \in {b \in [1..A -> all \X all] :
                             \A k \in 1..A : b[k][1] \in PlaceLits(k)
                                              /\ b[k][2] \in PlaceLits(k)}} :
           A \in 0..MaxPlaceAnd}

InitPlace == Loaded(PlacePlans)

NextPlace == cmd_place2net

SpecPlace == InitPlace /\ [][NextPlace]_vars

\* direct calls of changeToEqGate on the first gate of a network of
\* 1 + MaxRemOthers inner gates: the gate's function, output polarity and
\* input slots, and the values its drivers hold.  A BUFFER has one input.
ChangePlans ==
    {p \in [fn : {"AND", "OR", "BUFFER"}, oinv : BOOLEAN,
            ins : RemSeqs(RemOthers \X BOOLEAN),
            val : [RemOthers -> BOOLEAN]] :
        p.fn = "BUFFER" => Len(p.ins) = 1}

RECURSIVE ChangeValues(_, _, _)
ChangeValues(N, v, k) ==
    IF k > 1 + MaxRemOthers THEN N
    ELSE ChangeValues([N EXCEPT !.G[k].val = v[k]], v, k + 1)

ChangeBuild(p) ==
    LET N1 == RemInputs(BooleanNet(0, 0, 1 + MaxRemOthers),
                        p.ins, Len(p.ins))
        N2 == setFunction(N1, RemGate, p.fn)
        N3 == IF p.oinv THEN setOutputInverting(N2, RemGate) ELSE N2
    IN ChangeValues(N3, p.val, 2)

InitChange ==
    /\ plan \in ChangePlans
    /\ net = ChangeBuild(plan)
    /\ orig = net
    /\ hist = <<>>
    /\ sim = NoSim
    /\ arg = 0

call_changeToEqGate ==
    /\ CanStep
    /\ net' = changeToEqGate(net, RemGate)
    /\ hist' = Append(hist, "changeToEqGate")
    /\ arg' = 0
    /\ UNCHANGED <<orig, plan, sim>>

NextChange == call_changeToEqGate

SpecChange == InitChange /\ [][NextChange]_vars

\* colorBaseGates, as print_mappedBlif calls it, on a fresh network or
\* after one rebuilding command
call_colorBaseGates ==
    /\ CanStep
    /\ Cardinality({i \in 1..Len(hist) : hist[i] = "colorBaseGates"})
          < MaxColorings
    /\ \E color \in {{"DUALBASE"}, {"INTREE"}} :
         /\ net' = colorBaseGates(net, color)
         /\ arg' = [color |-> color]
    /\ hist' = Append(hist, "colorBaseGates")
    /\ UNCHANGED <<orig, plan, sim>>

InitBase == Loaded(SeqPlans)

NextBase == cmd_dual \/ cmd_move \/ call_colorBaseGates

SpecBase == InitBase /\ [][NextBase]_vars

\* command "buffByScoap C" further down a command line
seq_InsertBuffsByScoap ==
    /\ CanChangeSeq
    /\ \E count \in 0..MaxSeqPlaces :
         /\ arg' = count
         /\ IF count > 0
            THEN \E order \in PopOrders(net, HeapOf(net)) :
                   net' = computeNetDepth(
                            InsertBuffsByScoap(net, count, order))
            ELSE net' = net
    /\ hist' = Append(hist, "buffByScoap")
    /\ UNCHANGED <<orig, plan, sim>>

\* command lines "dualAlt; buffByScoap C" on the files of MaxMoveAnd AND
\* lines in topological order without negated literals, the output on the
\* last line
ChainLits(k) == {2 * v : v \in 1..(MaxMoveIn + k - 1)}

ChainPlans ==
    {p \in MovePlans :
        /\ p.outs[1] % 2 = 0
        /\ \A k \in 1..MaxMoveAnd :
              p.ands[k][1] \in ChainLits(k) /\ p.ands[k][2] \in ChainLits(k)}

InitChain == Loaded(ChainPlans)

NextChain == cmd_dualAlt \/ seq_InsertBuffsByScoap

SpecChain == InitChain /\ [][NextChain]_vars

\* commands "dual" and "dualAlt" further down a command line
seq_dual ==
    /\ CanChangeSeq
    /\ net' = convDualRail(net)
    /\ hist' = Append(hist, "dual")
    /\ arg' = 0
    /\ UNCHANGED <<orig, plan, sim>>

seq_dualAlt ==
    /\ CanChangeSeq
    /\ net' = enableAltSpacer(convDualRail(net))
    /\ hist' = Append(hist, "dualAlt")
    /\ arg' = 0
    /\ UNCHANGED <<orig, plan, sim>>

\* command lines of the five transformations in any order, on the files of
\* MaxTransIn inputs and MaxTransAnd AND lines in topological order, the
\* output on the last line
TransPlans ==
    LET top == 2 * (MaxTransIn + MaxTransAnd)
        all == 2..(top + 1)
    IN {[I |-> MaxTransIn, outs |-> <<o>>, ands |-> a] :
           o \in {top, top + 1},
           a \in {b \in [1..MaxTransAnd -> all \X all] :
                      \A k \in 1..MaxTransAnd :
                          /\ b[k][1] \in 2..(2 * (MaxTransIn + k) - 1)
                          /\ b[k][2] \in 2..(2 * (MaxTransIn + k) - 1)}}

InitTrans == Loaded(TransPlans)

NextTrans ==
    seq_nand \/ seq_move \/ seq_dual \/ seq_dualAlt \/ seq_InsertBuffsByScoap

SpecTrans == InitTrans /\ [][NextTrans]_vars

\* a call move_shiftInverters(true), as the outer loop of moveInverters
\* makes it; arg keeps the gate of the conflict and the network the
\* conflict branch started from
call_move_shiftInverters ==
    /\ CanStep
    /\ LET c == shiftReach([net EXCEPT !.ret = FALSE], 1) IN
         arg' = [gate |-> IF c.i = 0 THEN NULL ELSE c.at.gates[c.i],
                 at |-> c.at]
    /\ net' = move_shiftInverters(net, TRUE)
    /\ hist' = Append(hist, "move_shiftInverters")
    /\ UNCHANGED <<orig, plan, sim>>

\* the inner loop of moveInverters, run to its end
call_moveInner ==
    /\ CanStep
    /\ net' = moveInner(net, FALSE, MaxIter)
    /\ hist' = Append(hist, "moveInner")
    /\ arg' = 0
    /\ UNCHANGED <<orig, plan, sim>>

\* the files of SeqPlans whose output is taken from an AND gate
ShiftPlans == {p \in SeqPlans : p.outs[1] >= 2 * (MaxSeqIn + 1)}

InitShift == Loaded(ShiftPlans)

NextShift ==
    call_move_shiftInverters \/ call_moveInner \/ seq_nand \/ seq_dualAlt

SpecShift == InitShift /\ [][NextShift]_vars

\* command "simVect" of such a line, in the runs where every read of the
\* unassigned `result` finds the same value
seq_simVect ==
    /\ CanStep
    /\ Cardinality({i \in 1..Len(hist) : hist[i] = "simVect"}) < MaxSims
    /\ \E inVect \in 0..(Pow2(Len(net.inputs)) - 1), b \in BOOLEAN :
         /\ net' = simInVect(net, inVect, JunkConst(net, b))
         /\ sim' = [inVect |-> inVect, junk |-> JunkConst(net, b)]
         /\ arg' = inVect
    /\ hist' = Append(hist, "simVect")
    /\ UNCHANGED <<orig, plan>>

\* command lines of "dualAlt", "move" and "simVect" on the files of the mix
NextStale == seq_dualAlt \/ seq_move \/ seq_simVect

SpecStale == InitTrans /\ [][NextStale]_vars

\* buffer insertion on the networks of MaxBuffIn inputs, MaxAnd AND lines
\* and MaxBuffOut outputs
BuffPlans ==
    {[I |-> MaxBuffIn, outs |-> o, ands |-> a] :
        o \in [1..MaxBuffOut -> OutLits(MaxBuffIn, MaxAnd)],
        a \in AndLines(MaxBuffIn, MaxAnd)}

InitBuff == Loaded(BuffPlans)

NextBuff == cmd_scoap \/ cmd_InsertBuffsByScoap

SpecBuff == InitBuff /\ [][NextBuff]_vars

\* ======================================================= graph predicates
\* the gates of the network: inner gates, inputs and outputs
NetGates(N) == Range(N.gates) \cup Range(N.inputs) \cup Range(N.outputs)

\* every input slot of g names a driver that lists g
DriversList(N) ==
    \A g \in NetGates(N) : \A i \in 1..Len(N.G[g].ins) :
        LET d == N.G[g].ins[i] IN
        d # NULL /\ Count(N.G[d].fol, g) >= 1

\* every listed follower f of d has d on one of its input slots
FollowersDriven(N) ==
    \A d \in NetGates(N) : \A j \in 1..Len(N.G[d].fol) :
        LET f == N.G[d].fol[j] IN
        f # NULL /\ Count(N.G[f].ins, d) >= 1

\* a gate feeds two input slots of the same follower
HasDoubleEdge(N) ==
    \E g \in NetGates(N) : \E d \in Range(N.G[g].ins) :
        Count(N.G[g].ins, d) >= 2

\* some gate or output taps a driver through an inverting slot
HasInvertingSlot(N) ==
    \E g \in NetGates(N) : \E j \in 1..Len(N.G[g].inv) : N.G[g].inv[j]

\* no list or complement link of a network gate names a deleted gate
NoDangling(N) ==
    \A g \in NetGates(N) :
        /\ N.G[g].alive
        /\ \A d \in Range(N.G[g].ins) : d # NULL /\ N.G[d].alive
        /\ \A f \in Range(N.G[g].fol) : f # NULL /\ N.G[f].alive
        /\ N.G[g].comp # NULL => N.G[N.G[g].comp].alive

\* no inner gate inverts its output, no inner or output gate inverts a slot
NoInnerInverters(N) ==
    /\ \A g \in Range(N.gates) : ~N.G[g].oinv
    /\ \A g \in Range(N.gates) \cup Range(N.outputs) :
          \A j \in 1..Len(N.G[g].inv) : ~N.G[g].inv[j]

\* the run is the single command op on the loaded network, and it returned
AfterFresh(op) == hist = <<op>> /\ Ok(net)

\* ========================================================== convDualRail
\* C1: after convDualRail on a loaded network, for every gate and every
\* input slot the driver of the slot lists the gate among its followers,
\* and every listed follower is driven by the gate that lists it.  (P1
\* reads "exactly once"; "at least once" is the weaker reading, which a
\* gate listed twice by a driver of two of its slots still satisfies.)
C1_DualSymmetry ==
    AfterFresh("dual") => DriversList(net) /\ FollowersDriven(net)

\* C5: after convDualRail on a loaded network no inner gate has an
\* inverting output and no inner or output gate has an inverting input edge
C5_DualNoInverters == AfterFresh("dual") => NoInnerInverters(net)

\* convDualRail ran on a network that had inverting edges and twins exist
C5_Witness ==
    /\ AfterFresh("dual")
    /\ HasInvertingSlot(orig)
    /\ Len(net.gates) = 2 * Len(orig.gates)
    /\ NoInnerInverters(net)

\* slot k of h taps the complement of what slot j of g taps
ComplementarySlots(N, g, j, h, k) ==
    \/ N.G[h].ins[k] = N.G[g].ins[j] /\ N.G[h].inv[k] # N.G[g].inv[j]
    \/ /\ N.G[g].ins[j] # NULL
       /\ N.G[h].ins[k] = N.G[N.G[g].ins[j]].comp
       /\ N.G[h].inv[k] = N.G[g].inv[j]

\* every gate has a complement that points back at it
MutualComplements(N) ==
    \A g \in NetGates(N) :
        LET h == N.G[g].comp IN
        h # NULL /\ h \in NetGates(N) /\ N.G[h].comp = g

\* inner pairs have dual functions and the same fan-in
DualFunctions(N) ==
    \A g \in Range(N.gates) :
        LET h == N.G[g].comp IN
        /\ N.G[h].fn = convdual_getComplementaryGateFn(N.G[g].fn)
        /\ Len(N.G[h].ins) = Len(N.G[g].ins)

\* slot j of every inner gate against slot j of its twin
SlotForSlot(N) ==
    \A g \in Range(N.gates) : \A j \in 1..Len(N.G[g].ins) :
        ComplementarySlots(N, g, j, N.G[g].comp, j)

\* slot j of every inner gate against slot fanIn + 1 - j of its twin
SlotsMirrored(N) ==
    \A g \in Range(N.gates) : \A j \in 1..Len(N.G[g].ins) :
        ComplementarySlots(N, g, j, N.G[g].comp, Len(N.G[g].ins) + 1 - j)

\* C6 as stated: after convDualRail every gate has a mutual complement,
\* inner pairs have dual functions and equal fan-in, and slot j of the
\* twin taps the complement of the signal slot j of the gate taps
C6_DualPairsSlotForSlot ==
    AfterFresh("dual") =>
        MutualComplements(net) /\ DualFunctions(net) /\ SlotForSlot(net)

\* C6 amended: after convDualRail every gate has a mutual complement,
\* inner pairs have dual functions and equal fan-in, and the twin taps the
\* complements of the gate's signals in reverse slot order: slot j of the
\* gate against slot fanIn + 1 - j of the twin
C6_DualPairsMirrored ==
    AfterFresh("dual") =>
        MutualComplements(net) /\ DualFunctions(net) /\ SlotsMirrored(net)

\* convDualRail ran and some pair is complementary in mirrored order only
C6_Witness ==
    /\ AfterFresh("dual")
    /\ MutualComplements(net) /\ DualFunctions(net) /\ SlotsMirrored(net)
    /\ ~SlotForSlot(net)

\* ========================================================= moveInverters
\* C2: after moveInverters on a loaded network every driver of every input
\* slot lists the gate among its followers, every listed follower is driven
\* by the gate that lists it, and no list names a gate mergeEqGates deleted
C2_MoveSymmetry ==
    AfterFresh("move") =>
        DriversList(net) /\ FollowersDriven(net) /\ NoDangling(net)

\* moveInverters duplicated a gate on a conflict and merged a pair: a gate
\* was deleted and the network still holds more gates than were loaded
C2_Witness ==
    /\ AfterFresh("move")
    /\ \E g \in 1..Len(net.G) : ~net.G[g].alive
    /\ Len(net.G) > Len(orig.G) + 1
    /\ DriversList(net) /\ FollowersDriven(net) /\ NoDangling(net)

\* C7: when moveInverters returns on a loaded network no inner gate has an
\* inverting output and no inner or output gate has an inverting input slot
C7_MoveNoInnerInverters == AfterFresh("move") => NoInnerInverters(net)

\* ============================================================ simulation
\* every read of the unassigned `result` in the last simVect gave false
JunkIsFalse == sim.junk = JunkConst(net, FALSE)

\* the vector of the last simVect is one over the inputs of the file
OverOrigInputs == sim.inVect < Pow2(Len(orig.inputs))

\* the loaded network after the same vector, the reads giving false too
OrigSim == simInVect(orig, sim.inVect, JunkConst(orig, FALSE))

\* C3: for every loaded network and every vector the primary outputs hold
\* the same values after simInVect whether moveInverters ran first or not
C3_MoveKeepsOutputs ==
    (/\ hist = <<"move", "simVect">> /\ Ok(net)
     /\ JunkIsFalse /\ OverOrigInputs /\ Ok(OrigSim))
        => SimOut(net) = SimOut(OrigSim)

\* C4: for every loaded network and every vector over its inputs the
\* original outputs hold the same values after simInVect whether
\* convDualRail ran first or not, and every complementary output holds
\* the negation of its partner
C4_DualKeepsOutputs ==
    (/\ hist = <<"dual", "simVect">> /\ Ok(net)
     /\ JunkIsFalse /\ OverOrigInputs /\ Ok(OrigSim))
        => \A k \in 1..Len(orig.outputs) :
              LET o == net.outputs[k] IN
              /\ o = orig.outputs[k]
              /\ net.G[o].val = OrigSim.G[o].val
              /\ net.G[CompOf(net, o)].val = ~net.G[o].val

\* ================================================================= SCOAP
\* the last command was scoap and it returned
AfterScoap == hist # <<>> /\ hist[Len(hist)] = "scoap" /\ Ok(net)

\* it was the first scoap of the run
FirstScoap ==
    AfterScoap /\ Cardinality({i \in 1..Len(hist) : hist[i] = "scoap"}) = 1

\* the gates from which a gate of S is reached along follower edges
RECURSIVE Grow(_, _)
Grow(N, S) ==
    LET T == S \cup {g \in 1..Len(N.G) :
                        /\ N.G[g].alive
                        /\ \E k \in 1..getFanOut(N, g) :
                              getFollow(N, g, k) \in S}
    IN IF T = S THEN S ELSE Grow(N, T)

\* the gates with a path to a primary output or a registered buffer
Seen(N) == Grow(N, Range(N.outputs) \cup Range(N.buffers))

\* C8: after computeSumScoap, on a loaded network or after convDualRail,
\* moveInverters or InsertBuffsByScoap, every primary input has
\* cc0 = cc1 = 1, every primary output has co = 0, and every inner gate
\* has cc0, cc1 and co below INT_MAX.  (Stated here for the files in which
\* no gate feeds two slots of one follower, and asking co only of the
\* inner gates from which an output or a registered buffer is reached.)
C8_ScoapBoundaries ==
    AfterScoap /\ ~HasDoubleEdge(orig) =>
        /\ \A g \in Range(net.inputs) :
              net.G[g].cc0 = 1 /\ net.G[g].cc1 = 1
        /\ \A g \in Range(net.outputs) : net.G[g].co = 0
        /\ \A g \in Range(net.gates) :
              /\ net.G[g].cc0 < INT_MAX
              /\ net.G[g].cc1 < INT_MAX
              /\ g \in Seen(net) => net.G[g].co < INT_MAX

\* a + b, INT_MAX standing for +infinity
Sat(a, b) == IF a >= INT_MAX - b THEN INT_MAX ELSE a + b

RECURSIVE SatSum(_, _)
SatSum(f(_), S) ==
    IF S = {} THEN 0
    ELSE LET x == CHOOSE y \in S : TRUE IN Sat(f(x), SatSum(f, S \ {x}))

MinOf(f(_), S) ==
    IF S = {} THEN INT_MAX
    ELSE f(CHOOSE y \in S : \A z \in S : f(y) <= f(z))

\* the cost of making slot j of g present the value v
SlotCost(N, g, j, v) ==
    LET d == N.G[g].ins[j] IN
    IF N.G[g].inv[j] = (v = 0) THEN N.G[d].cc1 ELSE N.G[d].cc0

\* the cost of making the slots of f that d does not drive present v
SiblingCost(N, d, f, v) ==
    LET c(j) == SlotCost(N, f, j, v) IN
    SatSum(c, {j \in 1..getFanIn(N, f) : N.G[f].ins[j] # d})

\* observability of d through its follower f: the siblings present the
\* non-controlling value, 1 for AND and 0 for OR
CoVia(N, d, f) ==
    CASE N.G[f].fn = "AND" ->
            Sat(Sat(N.G[f].co, 1), SiblingCost(N, d, f, 1))
      [] N.G[f].fn = "OR" ->
            Sat(Sat(N.G[f].co, 1), SiblingCost(N, d, f, 0))
      [] OTHER -> Sat(N.G[f].co, 1)

\* the gates the observability recurrence is stated for
Observed(N) ==
    {g \in NetGates(N) : g \notin Range(N.outputs) \cup Range(N.buffers)}

\* C9: after the first computeSumScoap, for every gate d that is neither a
\* primary output nor a registered buffer, co(d) is the minimum over its
\* followers f of co(f) + 1 for a BUFFER and of co(f) + 1 + the cost of the
\* other slots of f presenting the non-controlling value of f (cc1 of a
\* non-inverted and cc0 of an inverted sibling for AND, the reverse for OR)
C9_ObservabilityRecurrence ==
    FirstScoap =>
        \A d \in Observed(net) :
            LET v(k) == CoVia(net, d, net.G[d].fol[k]) IN
            net.G[d].co = MinOf(v, 1..getFanOut(net, d))

\* the recurrence value of the controllability of v at the output of g,
\* before the output inversion
CcOf(N, g, v) ==
    LET c(j) == SlotCost(N, g, j, v)
        S == 1..getFanIn(N, g)
    IN IF (N.G[g].fn = "AND" /\ v = 0) \/ (N.G[g].fn = "OR" /\ v = 1)
       THEN Sat(1, MinOf(c, S))
       ELSE Sat(1, SatSum(c, S))

\* the gates the controllability recurrence is stated for
Controlled(N) ==
    {g \in NetGates(N) : g \notin Range(N.inputs) \cup Range(N.buffers)}

\* C10: after the first computeSumScoap every gate that is neither a
\* primary input nor a registered buffer satisfies the controllability
\* recurrence on the final values of its drivers: 1 + min (AND cc0, OR cc1)
\* or 1 + sum (AND cc1, OR cc0, BUFFER) of the slot costs, cc0 and cc1
\* exchanged when the output is inverting
C10_ControllabilityRecurrence ==
    FirstScoap =>
        \A g \in Controlled(net) :
            /\ net.G[g].cc0 = CcOf(net, g, IF net.G[g].oinv THEN 1 ELSE 0)
            /\ net.G[g].cc1 = CcOf(net, g, IF net.G[g].oinv THEN 0 ELSE 1)

\* ====================================================== buffer insertion
\* the last command was "buffByScoap count" with count > 0, and it was the
\* only command of the run that rebuilt the network
AfterInsert ==
    /\ hist # <<>>
    /\ hist[Len(hist)] = "buffByScoap"
    /\ arg > 0
    /\ Ok(net)

\* the eligible inner gates: not a BUFFER, and not a gate of fan-out 1
\* whose only follower is a BUFFER
EligibleGates(N) ==
    {g \in Range(N.gates) :
        /\ N.G[g].fn # "BUFFER"
        /\ ~(Len(N.G[g].fol) = 1 /\ N.G[N.G[g].fol[1]].fn = "BUFFER")}

Min(a, b) == IF a < b THEN a ELSE b

\* C11: InsertBuffsByScoap(count) with count > 0 inserts exactly
\* min(count, E) buffers, E the number of eligible inner gates: the gate
\* list and the buffer list both grow by that number.
C11_InsertsMinCountEligible ==
    AfterInsert =>
        LET E == Cardinality(EligibleGates(orig)) IN
        /\ Len(net.gates) = Len(orig.gates) + Min(arg, E)
        /\ Len(net.buffers) = Len(orig.buffers) + Min(arg, E)

\* the gates that received a buffer: the drivers of the listed buffers
BufferedGates(N) == {N.G[b].ins[1] : b \in Range(N.buffers)}

\* co * cc0 * cc1, on values that do not overflow
Product(N, g) == N.G[g].co * N.G[g].cc0 * N.G[g].cc1

SmallValues(N, g) ==
    /\ N.G[g].co < SmallScoap
    /\ N.G[g].cc0 < SmallScoap
    /\ N.G[g].cc1 < SmallScoap

\* the eligible gates of a strictly larger product than g
Larger(N, g) == {e \in EligibleGates(orig) : Product(N, e) > Product(N, g)}

\* C12: the gates InsertBuffsByScoap(count) buffers are those with the
\* largest co*cc0*cc1 among the eligible gates: a buffered gate has fewer
\* than count eligible gates of a strictly larger product, and no eligible
\* gate left without a buffer has a strictly larger product than a buffered
\* one (SCOAP values small enough for the products not to overflow).
C12_BuffersLargestProducts ==
    (AfterInsert /\ \A e \in EligibleGates(orig) : SmallValues(net, e)) =>
        /\ BufferedGates(net) \subseteq EligibleGates(orig)
        /\ \A b \in BufferedGates(net) :
              /\ Cardinality(Larger(net, b)) < arg
              /\ \A e \in EligibleGates(orig) \ BufferedGates(net) :
                    ~(Product(net, e) > Product(net, b))

\* ============================================================ evaluation
\* the value of gate g per its function: the conjunction (AND), the
\* disjunction (OR) or the single value (BUFFER) of the slot values,
\* XOR-ed with outputInverting
FunctionValue(N, g) ==
    LET slots == {SlotValue(N, g, i) : i \in 1..Len(N.G[g].ins)}
        result == CASE N.G[g].fn = "AND" -> FALSE \notin slots
                    [] N.G[g].fn = "OR" -> TRUE \in slots
                    [] OTHER -> SlotValue(N, g, 1)
    IN Xor(result, N.G[g].oinv)

\* C13: computeOutputValue evaluates a gate per its own function only: after
\* simInVect on a freshly built network every inner gate and every output
\* holds the value of its function on the values of its drivers.
C13_ValuePerFunction ==
    (hist = <<"simVect">> /\ Ok(net)) =>
        \A g \in Range(net.gates) \cup Range(net.outputs) :
            Len(net.G[g].ins) > 0 => net.G[g].val = FunctionValue(net, g)

\* ================================================================ loader
\* the header as written: M # I + L + A, or L # 0
HeaderBad(h) ==
    \/ h.M # Long(h.I[1] + h.L[1] + h.A[1], h.I[2] + h.L[2] + h.A[2])
    \/ h.L # Long(0, 0)

\* C14: for every header with M # I + L + A or with L # 0 construction
\* fails: the loader reports not-loaded, no network is allocated or wired,
\* and the run ends without dispatching any command.
C14_BadHeaderFails ==
    HeaderBad(plan.hdr) =>
        /\ ~isFileLoaded(net)
        /\ net.G = <<>>
        /\ hist = <<>>

\* the file was loaded and no call faulted
Constructed == isFileLoaded(net) /\ Ok(net) /\ hist = <<>>

\* the output literals other than the constants 0 and 1, in file order
NonConstant(outs) == SelectSeq(outs, LAMBDA l : l > 1)

\* the primary input or inner gate numbered by variable v
Numbered(N, I, v) == IF v <= I THEN N.inputs[v] ELSE N.gates[v - I]

\* C15: after successful construction there are as many output gates as
\* non-constant output literals, and the k-th output gate has fan-in 1, its
\* driver the input or inner gate numbered by the k-th non-constant literal
\* divided by 2, its inverting bit that literal's parity.
C15_OutputsWired ==
    Constructed =>
        LET lits == NonConstant(plan.outs) IN
        /\ Len(net.outputs) = Len(lits)
        /\ \A k \in 1..Len(lits) :
              LET o == net.outputs[k] IN
              /\ Len(net.G[o].ins) = 1
              /\ net.G[o].ins[1] = Numbered(net, plan.I, lits[k] \div 2)
              /\ net.G[o].inv[1] = (lits[k] % 2 = 1)

\* a constant between an output of the input and an inverted output of the
\* AND gate
C15_Witness ==
    /\ Constructed
    /\ Len(plan.outs) = MaxLoadOut
    /\ \E k \in 2..(MaxLoadOut - 1) : plan.outs[k] <= 1
    /\ plan.outs[1] > 1 /\ plan.outs[1] \div 2 <= plan.I
    /\ plan.outs[MaxLoadOut] \div 2 > plan.I
    /\ plan.outs[MaxLoadOut] % 2 = 1
    /\ Len(net.outputs) = MaxLoadOut - 1
    /\ net.G[net.outputs[MaxLoadOut - 1]].ins = <<net.gates[1]>>
    /\ net.G[net.outputs[MaxLoadOut - 1]].inv = <<TRUE>>

\* ============================================================== coloring
\* the last operation was colorInTree(arg.gate, arg.color)
AfterColor == hist # <<>> /\ hist[Len(hist)] = "colorInTree"

\* the gates from which S is reached along drivers, S included
RECURSIVE DriverCone(_, _)
DriverCone(N, S) ==
    LET T == S \cup UNION {Range(N.G[g].ins) : g \in S}
    IN IF T = S THEN S ELSE DriverCone(N, T)

\* C16: colorInTree(o, c) terminates, and afterwards every gate on a driver
\* path from a primary input to o, o and the inputs included, carries
\* color c, whatever colors the gates carried before.
C16_ConeColored ==
    AfterColor =>
        /\ Ok(net)
        /\ \A g \in DriverCone(net, {arg.gate}) :
              arg.color \subseteq net.G[g].color

\* the second coloring of a run, from an output, over a cone of at least
\* four gates one of which is reached along two paths and one of which
\* carried another color before
C16_Witness ==
    /\ AfterColor
    /\ Ok(net)
    /\ arg.gate \in Range(net.outputs)
    /\ Cardinality(DriverCone(net, {arg.gate})) >= 4
    /\ \E g \in DriverCone(net, {arg.gate}) :
          /\ net.G[g].color = {"INTREE", "OUTTREE"}
          /\ Len(net.G[g].fol) > 1
    /\ \A g \in DriverCone(net, {arg.gate}) :
          arg.color \subseteq net.G[g].color

\* ================================================================= depth
\* computeNetDepth was the last thing the run did: in main() after the
\* load, at the end of "buffByScoap count" with count > 0, or called
AfterNetDepth ==
    /\ Ok(net)
    /\ \/ hist = <<>>
       \/ hist[Len(hist)] = "computeNetDepth"
       \/ hist[Len(hist)] = "buffByScoap" /\ arg > 0

\* the largest element of a finite set of naturals, 0 for the empty set
Max(S) == IF S = {} THEN 0 ELSE CHOOSE m \in S : \A n \in S : n <= m

\* C17: whenever computeNetDepth is called, after construction or after
\* transformations, netDepth afterwards is the maximum of depth(o) over the
\* current output gates, 0 when there are none.
C17_NetDepthIsMaxOutputDepth ==
    AfterNetDepth =>
        net.netDepth = Max({net.G[o].depth : o \in Range(net.outputs)})

\* a call after a transformation that replaces a netDepth other than 0 by
\* a larger one
C17_Witness ==
    /\ AfterNetDepth
    /\ hist # <<>>
    /\ hist[1] \in Changing
    /\ orig.netDepth > 0
    /\ net.netDepth > orig.netDepth
    /\ net.netDepth = Max({net.G[o].depth : o \in Range(net.outputs)})

\* ============================================================== convNAND
\* the inverting bits of the slots of f that g drives
EdgeBits(N, g, f) ==
    {N.G[f].inv[k] : k \in {i \in 1..Len(N.G[f].ins) : N.G[f].ins[i] = g}}

\* g is an AND gate of fan-out 1 + MaxNandFollowers that feeds the BUFFER b
\* through a non-inverting edge and MaxNandFollowers other gates through
\* inverting edges
FeedsBufferAndInverting(N, g, b) ==
    /\ N.G[g].fn = "AND"
    /\ Len(N.G[g].fol) = 1 + MaxNandFollowers
    /\ Cardinality(Range(N.G[g].fol)) = 1 + MaxNandFollowers
    /\ b \in Range(N.G[g].fol)
    /\ N.G[b].fn = "BUFFER"
    /\ EdgeBits(N, g, b) = {FALSE}
    /\ \A f \in Range(N.G[g].fol) \ {b} : EdgeBits(N, g, f) = {TRUE}

\* convNAND ran on the network as built
AfterNand == hist = <<"nand">> /\ Ok(net)

\* C18 as claimed: convNAND flips the outputInverting of such a gate, clears
\* the inverting bits of the consumers on their edges from the gate and
\* leaves the edge to the BUFFER as it was.
C18_NandFlipsGate ==
    AfterNand =>
        \A g \in Range(orig.gates), b \in Range(orig.outputs) :
            FeedsBufferAndInverting(orig, g, b) =>
                /\ net.G[g].oinv # orig.G[g].oinv
                /\ \A f \in Range(orig.G[g].fol) \ {b} :
                      EdgeBits(net, g, f) = {FALSE}
                /\ EdgeBits(net, g, b) = EdgeBits(orig, g, b)

\* C18 (amended): convNAND leaves such a gate alone: its outputInverting,
\* the inverting bits of the consumers on their edges from the gate and the
\* edge to the BUFFER are all as they were.
C18_NandLeavesGate ==
    AfterNand =>
        \A g \in Range(orig.gates), b \in Range(orig.outputs) :
            FeedsBufferAndInverting(orig, g, b) =>
                /\ net.G[g].oinv = orig.G[g].oinv
                /\ \A f \in Range(orig.G[g].fol) :
                      EdgeBits(net, g, f) = EdgeBits(orig, g, f)

\* convNAND ran on a network with such a gate and moved an inverter
\* elsewhere, the gate and its edges being as before
C18_Witness ==
    /\ AfterNand
    /\ net # orig
    /\ \E g \in Range(orig.gates), b \in Range(orig.outputs) :
          /\ FeedsBufferAndInverting(orig, g, b)
          /\ net.G[g].oinv = orig.G[g].oinv
          /\ \A f \in Range(orig.G[g].fol) :
                EdgeBits(net, g, f) = EdgeBits(orig, g, f)

\* ============================================================ complements
\* every complement reference held by a gate of the network designates a
\* gate that is still in the network, and the link is mutual
ComplementsSound(N) ==
    \A g \in NetGates(N) :
        N.G[g].comp # NULL =>
            /\ N.G[g].comp \in NetGates(N)
            /\ N.G[N.G[g].comp].alive
            /\ N.G[N.G[g].comp].comp = g

\* the last command was "move"; net is the network moveInverters left, at
\* the point it returned or at the point it stopped
AfterMove == hist # <<>> /\ hist[Len(hist)] = "move"

\* C19: during and after moveInverters every complement reference of a gate
\* of the network designates a gate still in the network and the link is
\* mutual; when mergeEqGates removes a gate it is the surviving partner
\* whose reference is cleared, wherever the two gates sit in the gate list.
C19_ComplementsSound == AfterMove => ComplementsSound(net)

\* C20: moveInverters terminates on every acyclic network the loader
\* builds: none of its loops runs without reaching a pass in which no rule
\* fires
C20_MoveInvertersTerminates == AfterMove => net.st # "loop"

\* ======================================================= remFollow, remInput
\* s without the first occurrence of x
RemoveFirst(s, x) ==
    IF FirstIdx(s, x) = 0 THEN s ELSE EraseAt(s, FirstIdx(s, x))

\* C21: remFollow(f) removes exactly the first occurrence of f from the
\* follower list and leaves every other entry, later occurrences of f
\* included, in place and in order (the list is unchanged when f is
\* absent); remInput(d) does the same on the input list and removes the
\* inverting bit of the same slot.
C21_RemovesFirstOccurrenceOnly ==
    [][/\ hist' = Append(hist, "remFollow") =>
           net'.G[RemGate].fol = RemoveFirst(net.G[RemGate].fol, arg'.other)
       /\ hist' = Append(hist, "remInput") =>
           LET i == FirstIdx(net.G[RemGate].ins, arg'.other) IN
           /\ net'.G[RemGate].ins =
                  RemoveFirst(net.G[RemGate].ins, arg'.other)
           /\ net'.G[RemGate].inv =
                  (IF i = 0 THEN net.G[RemGate].inv
                   ELSE EraseAt(net.G[RemGate].inv, i))]_vars

\* ================================================ moveout_changeToEqGates
\* the gate moveout_changeToEqGates rewrites: non-inverting output, every
\* input inverting
Rewritable(N, g) == ~N.G[g].oinv /\ AllInputsInverting(N, g)

\* C22: moveout_changeToEqGates returns true if and only if it rewrote at
\* least one gate (non-inverting output, all inputs inverting); when no
\* gate meets the condition it returns false, and moveInverters skips
\* moveout_shiftInvertersToOutputs and the extra move_changeToEqGates.
C22_ReportsRewrite ==
    [][hist' = Append(hist, "moveout_changeToEqGates") =>
          (net'.ret <=>
             \E i \in 1..Len(net.gates) : Rewritable(net, net.gates[i]))]_vars

\* ========================================================== enableAltSpacer
AfterDualAlt == hist # <<>> /\ hist[Len(hist)] = "dualAlt"

\* the balancers: inverting BUFFER inner gates with a complement that is
\* such a gate too
IsBalancer(N, b) ==
    /\ N.G[b].fn = "BUFFER" /\ N.G[b].pl = "INNER" /\ N.G[b].oinv
    /\ N.G[b].comp # NULL
    /\ N.G[N.G[b].comp].comp = b
    /\ N.G[N.G[b].comp].fn = "BUFFER" /\ N.G[N.G[b].comp].oinv

\* the gates of the two rails: the gate list without the balancers
RailGates(N) == {g \in Range(N.gates) : ~IsBalancer(N, g)}

\* C23: after convDualRail and enableAltSpacer no gate of either rail keeps
\* a direct follower whose depth has the parity of its own depth.
C23_NoSameParityEdge ==
    (AfterDualAlt /\ Ok(net)) =>
        \A g \in RailGates(net) :
            \A j \in 1..getFanOut(net, g) :
                ~altSameParity(net, g, getFollow(net, g, j))

\* =============================================================== place2Rect
AfterPlace == hist # <<>> /\ hist[Len(hist)] = "place2rect"

\* the width of the rectangle the text gives: the square root, rounded up
CeilSqrt(n) == CHOOSE r \in 0..n : r * r >= n /\ (r = 0 \/ (r - 1) * (r - 1) < n)

PlacedGates(N) == {g \in 1..Len(N.G) : N.G[g].placed}

\* C24: place2Rect puts the i-th gate it visits (i from 0) at x = i mod W,
\* y = i div W with W = ceil(sqrt(N)), N the number of inner gates; it
\* completes without arithmetic fault for every network, N = 0 and N not a
\* perfect square included, and no two placed gates share coordinates.
C24_PlacedOnCeilSqrtGrid ==
    AfterPlace =>
        LET W == CeilSqrt(Len(net.gates))
            P == PlacedGates(net)
        IN /\ Ok(net)
           /\ \A g, h \in P :
                  g # h => <<net.G[g].placeX, net.G[g].placeY>>
                           # <<net.G[h].placeX, net.G[h].placeY>>
           /\ P # {} =>
                  {<<net.G[g].placeX, net.G[g].placeY>> : g \in P}
                  = {<<i % W, i \div W>> : i \in 0..(Cardinality(P) - 1)}

\* ============================================================ changeToEqGate
\* C25: changeToEqGate preserves the gate's Boolean function: for every AND,
\* OR or BUFFER gate, every combination of inverting bits and every
\* assignment of driver values the value of the gate's function is the same
\* before and after the call, and two successive calls restore function
\* tag, inverting bits and outputInverting exactly.
C25_ChangeToEqGatePreserves ==
    (hist # <<>> /\ \A i \in 1..Len(hist) : hist[i] = "changeToEqGate") =>
        /\ Ok(net)
        /\ FunctionValue(net, RemGate) = FunctionValue(orig, RemGate)
        /\ Len(hist) % 2 = 0 => net = orig

\* a two-input AND with one inverting slot, turned into an OR
C25_Witness ==
    /\ hist = <<"changeToEqGate">>
    /\ orig.G[RemGate].fn = "AND" /\ net.G[RemGate].fn = "OR"
    /\ orig.G[RemGate].inv = <<TRUE, FALSE>>
    /\ net.G[RemGate].inv = <<FALSE, TRUE>>
    /\ net.G[RemGate].oinv # orig.G[RemGate].oinv

\* ============================================================ colorBaseGates
\* what the text asks of the network after colorBaseGates(c)
BaseColored(N, c) ==
    /\ \A g \in Range(N.gates) :
          IF N.G[g].comp = NULL THEN hasColor(N, g, c)
          ELSE N.G[g].comp \in Range(N.gates) =>
                  (hasColor(N, g, c) # hasColor(N, N.G[g].comp, c))
    /\ \A g \in Range(N.inputs) \cup Range(N.outputs) : hasColor(N, g, c)

\* C26: after colorBaseGates(c), c not empty, on a network in which no gate
\* carried c, every inner gate without complement carries c, exactly one
\* gate of every complementary pair of inner gates carries c, and every
\* primary input and output carries c; a second colorBaseGates(c) colors no
\* further gate.
C26_BaseGatesColored ==
    [][hist' = Append(hist, "colorBaseGates") =>
          /\ Ok(net')
          /\ (\A g \in NetGates(net) : ~hasColor(net, g, arg'.color))
                 => BaseColored(net', arg'.color)
          /\ (hist # <<>> /\ hist[Len(hist)] = "colorBaseGates"
                 /\ arg = arg') => net' = net]_vars

\* a dual-rail network colored twice with the same color: one gate of a
\* complementary pair carries it, the other does not
C26_Witness ==
    /\ hist = <<"dual", "colorBaseGates", "colorBaseGates">>
    /\ \E g \in Range(net.gates) :
          /\ net.G[g].comp \in Range(net.gates)
          /\ hasColor(net, g, {"DUALBASE"})
          /\ ~hasColor(net, net.G[g].comp, {"DUALBASE"})
    /\ \A g \in NetGates(net) : ~hasColor(net, g, {"INTREE"})

\* ======================================================= InsertBuffsByScoap
\* the buffer b of the network M, spliced behind its driver, against the
\* network N the command started from
Spliced(N, M, b) ==
    LET g == M.G[b].ins[1] IN
    /\ M.G[b].fn = "BUFFER" /\ M.G[b].pl = "INNER" /\ ~M.G[b].oinv
    /\ Len(M.G[b].ins) = 1 /\ M.G[b].inv = <<FALSE>>
    /\ M.G[g].fol = <<b>>
    /\ \A f \in 1..Len(M.G) : Count(M.G[b].fol, f) = Count(N.G[g].fol, f)
    /\ \A f \in Range(N.G[g].fol) :
          \A i \in 1..Len(N.G[f].ins) :
             N.G[f].ins[i] = g =>
                M.G[f].ins[i] = b /\ M.G[f].inv[i] = N.G[f].inv[i]
    /\ b \in Range(M.gates) /\ b \in Range(M.buffers)

InnerBuffer(N, g) == N.G[g].fn = "BUFFER" /\ N.G[g].pl = "INNER"

\* the buffer neither drives nor is driven by a BUFFER inner gate
Unchained(M, b) ==
    /\ ~InnerBuffer(M, M.G[b].ins[1])
    /\ \A f \in Range(M.G[b].fol) : ~InnerBuffer(M, f)

\* C27: every gate InsertBuffsByScoap buffers afterwards has exactly one
\* follower, the new non-inverting INNER BUFFER whose only input is the
\* gate through a non-inverting edge; the buffer has the gate's former
\* followers, each of their slots that named the gate names the buffer
\* with its inverting bit unchanged, the buffer is in the gate list and in
\* the buffer list, and it neither drives nor is driven by another BUFFER
\* inner gate.
C27_BufferSpliced ==
    [][(hist' = Append(hist, "buffByScoap") /\ Ok(net')) =>
          \A b \in Range(net'.buffers) \ Range(net.buffers) :
              Spliced(net, net', b) /\ Unchained(net', b)]_vars

\* ==================================================================== depth
\* the gates of the network that are not dangling
LiveGates(N) == {g \in NetGates(N) : Valid(N, g)}

\* every INNER or OUTPUT gate lies deeper than each of its drivers
DepthOrdered(N) ==
    \A g \in LiveGates(N) :
        N.G[g].pl \in {"INNER", "OUTPUT"} =>
            \A i \in 1..Len(N.G[g].ins) :
                Valid(N, N.G[g].ins[i]) =>
                    N.G[g].depth >= N.G[N.G[g].ins[i]].depth + 1

\* the primary inputs the loader made are at depth 0
InputsAtZero(N) == \A g \in Range(orig.inputs) : N.G[g].depth = 0

\* no gate of N is shallower in M
NeverShallower(N, M) ==
    \A g \in LiveGates(N) \cap LiveGates(M) : M.G[g].depth >= N.G[g].depth

\* C28: after construction and after any sequence of convNAND,
\* moveInverters, convDualRail, enableAltSpacer and InsertBuffsByScoap every
\* INNER or OUTPUT gate has depth >= 1 + the depth of each driver, every
\* original primary input has depth 0, and no transformation lowers the
\* depth of a gate.
C28_DepthBoundsDrivers ==
    [][/\ DepthOrdered(net) /\ InputsAtZero(net)
       /\ Ok(net') => /\ DepthOrdered(net') /\ InputsAtZero(net')
                      /\ NeverShallower(net, net')]_vars

\* a line of MaxOps commands with "move", "dualAlt" and "buffByScoap" in it
\* that left a gate of the loaded network deeper than the loader had it
C28_Witness ==
    /\ Ok(net) /\ Len(hist) = MaxOps
    /\ {"move", "dualAlt", "buffByScoap"} \subseteq Range(hist)
    /\ Len(net.buffers) > 0
    /\ DepthOrdered(net)
    /\ \E g \in LiveGates(orig) \cap LiveGates(net) :
          /\ net.G[g].pl \in {"INNER", "OUTPUT"}
          /\ net.G[g].depth > orig.G[g].depth

\* ===================================================== move_shiftInverters
\* the follower f of g inverts its edge from g
InvertsEdge(N, g, f) ==
    LET k == FirstIdx(N.G[f].ins, g) IN k # 0 /\ N.G[f].inv[k]

\* the gates c and g have the same inputs with the same inverting bits
SameInputs(N, c, g) ==
    /\ Len(N.G[c].ins) = Len(N.G[g].ins)
    /\ \A d \in Range(N.G[g].ins) : \A b \in BOOLEAN :
          Cardinality({k \in 1..Len(N.G[c].ins) :
                          N.G[c].ins[k] = d /\ N.G[c].inv[k] = b})
            = Cardinality({k \in 1..Len(N.G[g].ins) :
                              N.G[g].ins[k] = d /\ N.G[g].inv[k] = b})

\* g and its complement name each other
Paired(M, g) ==
    LET c == M.G[g].comp IN c # NULL /\ M.G[c].alive /\ M.G[c].comp = g

\* the complement of g is a copy of g with an inverting output
Duplicated(M, g) ==
    LET c == M.G[g].comp IN
    M.G[c].fn = M.G[g].fn /\ M.G[c].oinv /\ SameInputs(M, c, g)

\* the followers of g in the network B, as the network M has them: those
\* that inverted moved to the complement, the others stayed
Redirected(B, M, g) ==
    LET c == M.G[g].comp IN
    /\ \A f \in Range(B.G[g].fol) :
          LET k == FirstIdx(B.G[f].ins, g) IN
          IF InvertsEdge(B, g, f)
          THEN /\ M.G[f].ins[k] = c /\ ~M.G[f].inv[k]
               /\ f \in Range(M.G[c].fol)
          ELSE k # 0 =>
                  /\ M.G[f].ins[k] = g /\ ~M.G[f].inv[k]
                  /\ f \in Range(M.G[g].fol)

\* the conflict at g of the network B, as the network M resolves it
ConflictResolved(B, M, g) ==
    Paired(M, g) /\ Duplicated(M, g) /\ Redirected(B, M, g)

\* C29: when move_shiftInverters(true) resolves a conflict at a gate g,
\* afterwards every follower that did not invert still has g as its driver,
\* every follower that inverted has the complement of g as its driver through
\* a non-inverting edge, g and the complement name each other, the
\* complement has the function and the inputs of g with outputInverting set,
\* and the call resolves one conflict, adding at most one gate.
C29_ConflictResolved ==
    [][(hist' = Append(hist, "move_shiftInverters") /\ Ok(net')) =>
          /\ Len(net'.G) <= Len(net.G) + 1
          /\ Len(net'.gates) <= Len(net.gates) + 1
          /\ arg'.gate = NULL => Len(net'.G) = Len(net.G)
          /\ arg'.gate # NULL =>
                ConflictResolved(arg'.at, net', arg'.gate)]_vars

\* C29, amended: the complement is a copy of g with outputInverting set
\* when the call made it; a complement g had before the call is used as it
\* is.  The followers, the mutual reference and the one gate at most are as
\* in the claim.
C29_ConflictResolvedOrReused ==
    [][(hist' = Append(hist, "move_shiftInverters") /\ Ok(net')) =>
          /\ Len(net'.G) <= Len(net.G) + 1
          /\ Len(net'.gates) <= Len(net.gates) + 1
          /\ arg'.gate = NULL => Len(net'.G) = Len(net.G)
          /\ arg'.gate # NULL =>
                /\ Paired(net', arg'.gate)
                /\ Redirected(arg'.at, net', arg'.gate)
                /\ IF arg'.at.G[arg'.gate].comp = NULL
                   THEN /\ Duplicated(net', arg'.gate)
                        /\ net'.G[arg'.gate].comp = Len(net'.G)
                        /\ Len(net'.G) = Len(net.G) + 1
                   ELSE /\ net'.G[arg'.gate].comp
                             = arg'.at.G[arg'.gate].comp
                        /\ Len(net'.G) = Len(net.G)]_vars

\* a conflict resolved with a new gate: one follower moved to it, another
\* stayed
C29_Witness ==
    /\ hist # <<>> /\ hist[Len(hist)] = "move_shiftInverters" /\ Ok(net)
    /\ arg.gate # NULL
    /\ arg.at.G[arg.gate].comp = NULL
    /\ net.G[arg.gate].comp = Len(net.G)
    /\ \E f, h \in Range(arg.at.G[arg.gate].fol) :
          /\ InvertsEdge(arg.at, arg.gate, f)
          /\ ~InvertsEdge(arg.at, arg.gate, h)
          /\ net.G[arg.gate].comp \in Range(net.G[f].ins)
          /\ arg.gate \in Range(net.G[h].ins)

\* ================================================================ simInVect
AfterSimVect == hist # <<>> /\ hist[Len(hist)] = "simVect"

\* the gates that can be taken off the queue of simInVect: the followers
\* of the inputs, their followers, and so on
RECURSIVE Downstream(_, _)
Downstream(N, S) ==
    LET more == UNION {Range(N.G[g].fol) : g \in S} \ S
    IN IF more = {} THEN S ELSE Downstream(N, S \cup more)

FedByInputs(N) ==
    Downstream(N, UNION {Range(N.G[g].fol) : g \in Range(N.inputs)})

\* no gate is downstream of itself
NetAcyclic(N) ==
    \A g \in LiveGates(N) :
        g \notin Downstream(N, Range(N.G[g].fol))

\* the value an evaluation of g gives from the values its drivers hold
Evaluated(N, g, junk) == computeOutputValue(N, g, junk[g]).G[g].val

\* C30: simInVect(v) returns on every acyclic network; it sets primary
\* input k to bit k of v, and on return every gate that is reachable from a
\* primary input holds the value its evaluation gives from the values its
\* drivers hold then.
C30_SimSettles ==
    (AfterSimVect /\ NetAcyclic(net)) =>
        /\ Ok(net)
        /\ \A k \in 1..Len(net.inputs) :
              (k <= 32 /\ getFanIn(net, net.inputs[k]) = 0) =>
                  net.G[net.inputs[k]].val = Bit(sim.inVect, k - 1)
        /\ \A g \in FedByInputs(net) :
              net.G[g].val = Evaluated(net, g, sim.junk)

====
